---- MODULE Spec2Model ----
(***************************************************************************)
(* Crucible Engine: the Intent-AST (crucible-core), the ingress facade     *)
(* (crucible-api), the SMT translation layer (crucible-verification) and   *)
(* the emission orchestrator (crucible-codegen) and the parser adapter     *)
(* (crucible-parser), as state machines.                                   *)
(***************************************************************************)
EXTENDS Integers, Sequences, FiniteSets, TLC

VARIABLES
    ast,          \* crucible-core: one IntentAst value owned by a caller
    pass,         \* the outcome of the last verification pass run over a requirement of ast
    apiReturned,  \* crucible-api: the Requirements sent back by POST /api/requirements, oldest first
    apiResponse,  \* crucible-api: the last response body sent by a handler
    input,        \* the argument the caller holds for the next library call
    call,         \* the last library call made: function and arguments
    ret,          \* what that call returned
    checked,      \* the assertions held by the solver at each solver.check() of that call
    registry,     \* crucible-core: one Schema value owned by a caller
    added,        \* the add_field calls made to build that schema, oldest first
    emitted       \* the emissions made with a schema: the schema borrowed and the output, oldest first

vars == <<ast, pass, apiReturned, apiResponse, input, call, ret, checked, registry, added, emitted>>

(***************************************************************************)
(* Bounds                                                                  *)
(***************************************************************************)
MaxReqs == 3      \* longest requirement list explored
MaxUuid == 2      \* Uuid::new_v4 draws from 1..MaxUuid
MaxCalls == 3     \* number of POST /api/requirements calls explored
MaxNodes == 4     \* largest compound tree explored, in nodes
MaxConstraints == 2  \* longest constraint list given to a verifier that is called repeatedly
MaxAgainNodes == 2   \* largest compound tree given to such a verifier, in nodes
MaxAdds == 2         \* number of add_field calls explored on one schema
MaxEmissions == 2    \* number of emissions explored with one schema contents
MaxNameLen == 3      \* longest name given to to_ada_case, in characters
MaxCstNodes == 2     \* most children of the root of a syntax tree given to the parser adapter
MaxList == 2         \* longest constraint list given to one call

Uuids == 1..MaxUuid
Contents == {"withdraw", "deposit"}

(***************************************************************************)
(* crucible-core: Requirement, IntentAst                                   *)
(***************************************************************************)

\* correctness_score is an f64; it is kept as the exact quotient num/den of
\* the two operands the code divides, times 100.
Score(num, den) == [num |-> num, den |-> den]

\* the number of requirements r with r.verified
CountVerified(reqs) == Cardinality({i \in DOMAIN reqs : reqs[i].verified})

\* IntentAst::new
IntentAst_new(id) ==
    [id |-> id, requirements |-> <<>>, correctness_score |-> Score(0, 1)]

update_score_all(a) ==
    IF a.requirements = <<>>
    THEN [a EXCEPT !.correctness_score = Score(0, 1)]
    ELSE [a EXCEPT !.correctness_score =
              Score(Len(a.requirements) * 100, Len(a.requirements))]

\* IntentAst::update_score
update_score(a) ==
    IF a.requirements = <<>>
    THEN [a EXCEPT !.correctness_score = Score(0, 1)]
    ELSE [a EXCEPT !.correctness_score =
              Score(CountVerified(a.requirements) * 100, Len(a.requirements))]

new_requirement_verified(id, content) ==
    [id |-> id, content |-> content, verified |-> TRUE, constraints |-> <<>>]

\* the Requirement literal built by IntentAst::add_requirement
new_requirement(id, content) ==
    [id |-> id, content |-> content, verified |-> FALSE, constraints |-> <<>>]

push_front(reqs, req) == <<req>> \o reqs

\* Vec::push
push(reqs, req) == Append(reqs, req)

\* IntentAst::add_requirement
add_requirement(a, id, content) ==
    update_score([a EXCEPT !.requirements = push(@, new_requirement(id, content))])

(***************************************************************************)
(* crucible-core: ConstraintOperator, Constraint, CompoundConstraint       *)
(***************************************************************************)

ConstraintOperator ==
    {"GreaterThanOrEqual", "LessThanOrEqual", "GreaterThan", "LessThan",
     "Equal", "NotEqual"}

Variables == {"x", "y"}

\* str::parse::<i64> on the right values explored: the decimal literals
\* that fit in 64 bits parse, every other string is an Err.
I64Table == ("0" :> 0) @@ ("1" :> 1)

RightValues == {"0", "1", "x", "y", "9223372036854775808"}

parse_i64(s) ==
    IF s \in DOMAIN I64Table
    THEN [is_ok |-> TRUE, val |-> I64Table[s]]
    ELSE [is_ok |-> FALSE]

Constraint(l, op, r) == [left_variable |-> l, operator |-> op, right_value |-> r]

Constraints ==
    {Constraint(l, op, r) : l \in Variables, op \in ConstraintOperator, r \in RightValues}

Simple(c) == [tag |-> "Simple", constraint |-> c]
And(children) == [tag |-> "And", children |-> children]
Or(children) == [tag |-> "Or", children |-> children]
Not(child) == [tag |-> "Not", child |-> child]

RECURSIVE SumSeq(_)
SumSeq(ns) == IF ns = <<>> THEN 0 ELSE ns[1] + SumSeq(Tail(ns))

RECURSIVE count_constraints_not_adds(_)
count_constraints_not_adds(c) ==
    CASE c.tag \in {"And", "Or"} ->
            SumSeq([i \in DOMAIN c.children |-> count_constraints_not_adds(c.children[i])])
      [] c.tag = "Not" -> 1 + count_constraints_not_adds(c.child)
      [] c.tag = "Simple" -> 1

RECURSIVE count_constraints(_)
\* CompoundConstraint::count_constraints
count_constraints(c) ==
    CASE c.tag \in {"And", "Or"} ->
            SumSeq([i \in DOMAIN c.children |-> count_constraints(c.children[i])])
      [] c.tag = "Not" -> count_constraints(c.child)
      [] c.tag = "Simple" -> 1

(***************************************************************************)
(* The z3 crate as the verification layer uses it: integer terms, boolean  *)
(* formulas, a solver holding asserted formulas, check, get_model.         *)
(***************************************************************************)

\* z3::ast::Int::new_const / from_i64
Int_new_const(name) == [kind |-> "const", name |-> name]
Int_from_i64(v) == [kind |-> "num", val |-> v]

\* z3::ast::Bool builders
Bool_from_bool(b) == [op |-> IF b THEN "true" ELSE "false"]
Z3Cmp(op, l, r) == [op |-> op, l |-> l, r |-> r]
Z3Not(a) == [op |-> "not", a |-> a]
Z3And(a, b) == [op |-> "and", a |-> a, b |-> b]
Z3Or(a, b) == [op |-> "or", a |-> a, b |-> b]

Z3Term(t, env) == IF t.kind = "num" THEN t.val ELSE env[t.name]

RECURSIVE Z3Eval(_, _)
Z3Eval(f, env) ==
    CASE f.op = "true"  -> TRUE
      [] f.op = "false" -> FALSE
      [] f.op = "not"   -> ~Z3Eval(f.a, env)
      [] f.op = "and"   -> Z3Eval(f.a, env) /\ Z3Eval(f.b, env)
      [] f.op = "or"    -> Z3Eval(f.a, env) \/ Z3Eval(f.b, env)
      [] f.op = "ge"    -> Z3Term(f.l, env) >= Z3Term(f.r, env)
      [] f.op = "le"    -> Z3Term(f.l, env) <= Z3Term(f.r, env)
      [] f.op = "gt"    -> Z3Term(f.l, env) > Z3Term(f.r, env)
      [] f.op = "lt"    -> Z3Term(f.l, env) < Z3Term(f.r, env)
      [] f.op = "eq"    -> Z3Term(f.l, env) = Z3Term(f.r, env)

Z3TermConsts(t) == IF t.kind = "const" THEN {t.name} ELSE {}
Z3TermNums(t) == IF t.kind = "num" THEN {t.val} ELSE {}

\* the integer constants, the numerals and the number of atoms of a formula
RECURSIVE Z3Consts(_)
Z3Consts(f) ==
    CASE f.op \in {"true", "false"} -> {}
      [] f.op = "not" -> Z3Consts(f.a)
      [] f.op \in {"and", "or"} -> Z3Consts(f.a) \cup Z3Consts(f.b)
      [] OTHER -> Z3TermConsts(f.l) \cup Z3TermConsts(f.r)

RECURSIVE Z3Nums(_)
Z3Nums(f) ==
    CASE f.op \in {"true", "false"} -> {}
      [] f.op = "not" -> Z3Nums(f.a)
      [] f.op \in {"and", "or"} -> Z3Nums(f.a) \cup Z3Nums(f.b)
      [] OTHER -> Z3TermNums(f.l) \cup Z3TermNums(f.r)

RECURSIVE Z3Atoms(_)
Z3Atoms(f) ==
    CASE f.op \in {"true", "false"} -> 0
      [] f.op = "not" -> Z3Atoms(f.a)
      [] f.op \in {"and", "or"} -> Z3Atoms(f.a) + Z3Atoms(f.b)
      [] OTHER -> 1

SetMin(S) == CHOOSE v \in S : \A w \in S : v <= w
SetMax(S) == CHOOSE v \in S : \A w \in S : v >= w
Min2(a, b) == IF a <= b THEN a ELSE b

SolverConsts(s) == UNION {Z3Consts(s.assertions[i]) : i \in DOMAIN s.assertions}
SolverNums(s) == UNION {Z3Nums(s.assertions[i]) : i \in DOMAIN s.assertions} \cup {0}
SolverAtoms(s) == SumSeq([i \in DOMAIN s.assertions |-> Z3Atoms(s.assertions[i])])

\* The solver decides over all integers.  Every atom compares a constant
\* with a constant or with a numeral, so a satisfiable set of assertions
\* has a solution no further from its numerals than the number of its
\* constants (or of its atoms, when smaller): the search is over that window.
SolverWindow(s) ==
    LET r == Min2(Cardinality(SolverConsts(s)), SolverAtoms(s))
    IN  (SetMin(SolverNums(s)) - r) .. (SetMax(SolverNums(s)) + r)

SolverSatEnvs(s) ==
    LET consts == SolverConsts(s)
        window == SolverWindow(s)
    IN  {env \in [consts -> window] :
            \A i \in DOMAIN s.assertions : Z3Eval(s.assertions[i], env)}

Solver_new_reused == [assertions |-> IF checked = <<>> THEN <<>> ELSE checked[Len(checked)]]

\* z3::Solver::new: no assertions
Solver_new == [assertions |-> <<>>]

\* z3::Solver::assert
solver_assert(s, f) == [s EXCEPT !.assertions = Append(@, f)]

solver_reset_keeps(s) == s

\* z3::Solver::reset
solver_reset(s) == [s EXCEPT !.assertions = <<>>]

\* z3::Solver::check
solver_check(s) == IF SolverSatEnvs(s) # {} THEN "Sat" ELSE "Unsat"

\* z3::Solver::get_unsat_core: the tracked assertions and assumptions that
\* took part in the refutation; formulas added with assert are not tracked.
solver_get_unsat_core(s) == {}

\* z3::Solver::get_model after Sat: an interpretation of some of the
\* constants under which, whatever the others are, every assertion holds.
solver_get_models(s) ==
    LET consts == SolverConsts(s)
        window == SolverWindow(s)
        sat == SolverSatEnvs(s)
    IN  {m \in UNION {[D -> window] : D \in SUBSET consts} :
            \A env \in [consts -> window] :
                (\A n \in DOMAIN m : env[n] = m[n]) => env \in sat}

\* Display of a z3 integer numeral: digits, a negative one as "(- digits)"
Z3IntToString(v) ==
    IF v < 0 THEN [open |-> "(- ", digits |-> 0 - v, close |-> ")"]
    ELSE [open |-> "", digits |-> v, close |-> ""]

\* the HashMap built from m.get_decls(): name -> value.to_string()
model_map(m) == [n \in DOMAIN m |-> Z3IntToString(m[n])]

(***************************************************************************)
(* crucible-verification: Z3Verifier                                       *)
(***************************************************************************)

\* var_map.entry(name).or_insert_with(|| Int::new_const(name))
var_map_entry(var_map, name) ==
    IF name \in DOMAIN var_map THEN var_map
    ELSE [n \in DOMAIN var_map \cup {name} |->
              IF n = name THEN Int_new_const(name) ELSE var_map[n]]

parse_right_value_always_symbol(right_value, var_map) ==
    LET vm == var_map_entry(var_map, right_value)
    IN  [expr |-> vm[right_value], var_map |-> vm]

\* Z3Verifier::parse_right_value
parse_right_value(right_value, var_map) ==
    IF parse_i64(right_value).is_ok
    THEN [expr |-> Int_from_i64(parse_i64(right_value).val), var_map |-> var_map]
    ELSE LET vm == var_map_entry(var_map, right_value)
         IN  [expr |-> vm[right_value], var_map |-> vm]

operator_expr_gt_as_ge(operator, left_var, right_expr) ==
    CASE operator = "GreaterThanOrEqual" -> Z3Cmp("ge", left_var, right_expr)
      [] operator = "LessThanOrEqual"    -> Z3Cmp("le", left_var, right_expr)
      [] operator = "GreaterThan"        -> Z3Cmp("ge", left_var, right_expr)
      [] operator = "LessThan"           -> Z3Cmp("lt", left_var, right_expr)
      [] operator = "Equal"              -> Z3Cmp("eq", left_var, right_expr)
      [] operator = "NotEqual"           -> Z3Not(Z3Cmp("eq", left_var, right_expr))

\* the match on constraint.operator in translate_constraint
operator_expr(operator, left_var, right_expr) ==
    CASE operator = "GreaterThanOrEqual" -> Z3Cmp("ge", left_var, right_expr)
      [] operator = "LessThanOrEqual"    -> Z3Cmp("le", left_var, right_expr)
      [] operator = "GreaterThan"        -> Z3Cmp("gt", left_var, right_expr)
      [] operator = "LessThan"           -> Z3Cmp("lt", left_var, right_expr)
      [] operator = "Equal"              -> Z3Cmp("eq", left_var, right_expr)
      [] operator = "NotEqual"           -> Z3Not(Z3Cmp("eq", left_var, right_expr))

\* Z3Verifier::translate_constraint
translate_constraint(constraint, var_map) ==
    LET vm1 == var_map_entry(var_map, constraint.left_variable)
        left_var == vm1[constraint.left_variable]
        right == parse_right_value(constraint.right_value, vm1)
    IN  [expr |-> operator_expr(constraint.operator, left_var, right.expr),
         var_map |-> right.var_map]

\* result = first; for constraint in rest { result = result.and(constraint) }
RECURSIVE fold_and(_, _)
fold_and(result, rest) ==
    IF rest = <<>> THEN result ELSE fold_and(Z3And(result, rest[1]), Tail(rest))

RECURSIVE fold_or(_, _)
fold_or(result, rest) ==
    IF rest = <<>> THEN result ELSE fold_or(Z3Or(result, rest[1]), Tail(rest))

\* Z3Verifier::translate_compound; translate_children is the
\* constraints.iter().map(translate_compound).collect() of its And/Or arms
RECURSIVE translate_compound(_, _)
RECURSIVE translate_children(_, _)
translate_children(children, var_map) ==
    IF children = <<>> THEN [exprs |-> <<>>, var_map |-> var_map]
    ELSE LET head == translate_compound(children[1], var_map)
             rest == translate_children(Tail(children), head.var_map)
         IN  [exprs |-> <<head.expr>> \o rest.exprs, var_map |-> rest.var_map]

translate_compound(compound, var_map) ==
    CASE compound.tag = "And" ->
            LET z3_constraints == translate_children(compound.children, var_map)
            IN  [expr |-> IF z3_constraints.exprs = <<>> THEN Bool_from_bool(TRUE)
                          ELSE fold_and(z3_constraints.exprs[1], Tail(z3_constraints.exprs)),
                 var_map |-> z3_constraints.var_map]
      [] compound.tag = "Or" ->
            LET z3_constraints == translate_children(compound.children, var_map)
            IN  [expr |-> IF z3_constraints.exprs = <<>> THEN Bool_from_bool(FALSE)
                          ELSE fold_or(z3_constraints.exprs[1], Tail(z3_constraints.exprs)),
                 var_map |-> z3_constraints.var_map]
      [] compound.tag = "Not" ->
            LET inner == translate_compound(compound.child, var_map)
            IN  [expr |-> Z3Not(inner.expr), var_map |-> inner.var_map]
      [] compound.tag = "Simple" ->
            translate_constraint(compound.constraint, var_map)

EmptyVarMap == [n \in {} |-> Int_new_const(n)]

RECURSIVE assert_each_counts_nothing(_, _, _, _)
assert_each_counts_nothing(constraints, var_map, solver, constraints_count) ==
    IF constraints = <<>>
    THEN [solver |-> solver, var_map |-> var_map, constraints_count |-> constraints_count]
    ELSE LET z3_expr == translate_constraint(constraints[1], var_map)
         IN  assert_each_counts_nothing(Tail(constraints), z3_expr.var_map,
                                        solver_assert(solver, z3_expr.expr), constraints_count)

\* the for loop of verify_constraints: translate, assert, count
RECURSIVE assert_each(_, _, _, _)
assert_each(constraints, var_map, solver, constraints_count) ==
    IF constraints = <<>>
    THEN [solver |-> solver, var_map |-> var_map, constraints_count |-> constraints_count]
    ELSE LET z3_expr == translate_constraint(constraints[1], var_map)
         IN  assert_each(Tail(constraints), z3_expr.var_map,
                         solver_assert(solver, z3_expr.expr), constraints_count + 1)

SatOutput_not_satisfiable(model, proof, constraints_count) ==
    [is_ok |-> TRUE, satisfiable |-> FALSE, model |-> model, proof |-> proof,
     constraints_count |-> constraints_count]

SatOutput(model, proof, constraints_count) ==
    [is_ok |-> TRUE, satisfiable |-> TRUE, model |-> model, proof |-> proof,
     constraints_count |-> constraints_count]

\* Z3Verifier::verify_constraints: the solver at its check and the values
\* it can return
verify_constraints(constraints) ==
    LET looped == assert_each(constraints, EmptyVarMap, Solver_new, 0)
        solver == looped.solver
        verdict == solver_check(solver)
    IN  [checked |-> <<solver.assertions>>,
         returns |->
            CASE verdict = "Sat" ->
                    {SatOutput(model_map(m), "Constraints are satisfiable",
                               looped.constraints_count) : m \in solver_get_models(solver)}
              [] verdict = "Unsat" ->
                    {[is_ok |-> FALSE, error |-> "Unsatisfiable",
                      message |-> "Constraints are unsatisfiable. Unsat core size: ",
                      core_len |-> Cardinality(solver_get_unsat_core(solver))]}
              [] verdict = "Unknown" ->
                    {[is_ok |-> FALSE, error |-> "SolverError",
                      message |-> "Z3 solver returned unknown result"]}]

\* Z3Verifier::verify_compound_constraints
verify_compound_constraints(compound) ==
    LET z3_expr == translate_compound(compound, EmptyVarMap)
        solver == solver_assert(Solver_new, z3_expr.expr)
        verdict == solver_check(solver)
    IN  [checked |-> <<solver.assertions>>,
         returns |->
            CASE verdict = "Sat" ->
                    {SatOutput(model_map(m), "Compound constraints are satisfiable",
                               count_constraints(compound)) : m \in solver_get_models(solver)}
              [] verdict = "Unsat" ->
                    {[is_ok |-> FALSE, error |-> "Unsatisfiable",
                      message |-> "Compound constraints are unsatisfiable"]}
              [] verdict = "Unknown" ->
                    {[is_ok |-> FALSE, error |-> "SolverError",
                      message |-> "Z3 solver returned unknown result"]}]

\* check_equivalence
check_equivalence(constraint1, constraint2) ==
    LET z3_c1 == translate_constraint(constraint1, EmptyVarMap)
        z3_c2 == translate_constraint(constraint2, z3_c1.var_map)
        first == solver_assert(solver_assert(Solver_new, z3_c1.expr), Z3Not(z3_c2.expr))
        c1_implies_c2 == solver_check(first) = "Unsat"
        second == solver_assert(solver_assert(solver_reset(first), z3_c2.expr),
                                Z3Not(z3_c1.expr))
        c2_implies_c1 == solver_check(second) = "Unsat"
    IN  [checked |-> <<first.assertions, second.assertions>>,
         returns |-> {[is_ok |-> TRUE, value |-> c1_implies_c2 /\ c2_implies_c1]}]

\* verify_single_constraint
verify_single_constraint(constraint) == verify_constraints(<<constraint>>)

append_constraint_smt_redeclares(constraint, output, declared_vars) ==
    LET left == <<"(declare-const ", constraint.left_variable, " Int)", "\n">>
        op_str == CASE constraint.operator = "GreaterThanOrEqual" -> ">="
                    [] constraint.operator = "LessThanOrEqual" -> "<="
                    [] constraint.operator = "GreaterThan" -> ">"
                    [] constraint.operator = "LessThan" -> "<"
                    [] constraint.operator = "Equal" -> "="
                    [] constraint.operator = "NotEqual" -> "distinct"
    IN  [output |-> output \o left \o
                        <<"(assert (", op_str, " ", constraint.left_variable, " ",
                          constraint.right_value, "))", "\n">>,
         declared_vars |-> declared_vars \cup {constraint.left_variable}]

\* Z3Verifier::append_constraint_smt. The text is kept as the sequence of
\* its pieces: the fixed parts of each line, the names and the line ends.
append_constraint_smt(constraint, output, declared_vars) ==
    LET left == IF constraint.left_variable \notin declared_vars
                THEN <<"(declare-const ", constraint.left_variable, " Int)", "\n">>
                ELSE <<>>
        declared_left == declared_vars \cup {constraint.left_variable}
        is_err == ~parse_i64(constraint.right_value).is_ok
        right == IF is_err /\ constraint.right_value \notin declared_left
                 THEN <<"(declare-const ", constraint.right_value, " Int)", "\n">>
                 ELSE <<>>
        op_str == CASE constraint.operator = "GreaterThanOrEqual" -> ">="
                    [] constraint.operator = "LessThanOrEqual" -> "<="
                    [] constraint.operator = "GreaterThan" -> ">"
                    [] constraint.operator = "LessThan" -> "<"
                    [] constraint.operator = "Equal" -> "="
                    [] constraint.operator = "NotEqual" -> "distinct"
    IN  [output |-> output \o left \o right \o
                        <<"(assert (", op_str, " ", constraint.left_variable, " ",
                          constraint.right_value, "))", "\n">>,
         declared_vars |-> IF is_err THEN declared_left \cup {constraint.right_value}
                           ELSE declared_left]

generate_smt_lib_checks_first(constraints) ==
    LET RECURSIVE appended(_, _)
        appended(rest, state) ==
            IF rest = <<>> THEN state
            ELSE appended(Tail(rest),
                          append_constraint_smt(rest[1], state.output, state.declared_vars))
        start == [output |-> <<"(set-logic QF_LIA)", "\n",
                               "(set-option :produce-models true)", "\n\n",
                               "\n", "(check-sat)", "\n", "(get-model)", "\n">>,
                  declared_vars |-> {}]
    IN  appended(constraints, start).output

\* Z3Verifier::generate_smt_lib
generate_smt_lib(constraints) ==
    LET RECURSIVE appended(_, _)
        appended(rest, state) ==
            IF rest = <<>> THEN state
            ELSE appended(Tail(rest),
                          append_constraint_smt(rest[1], state.output, state.declared_vars))
        start == [output |-> <<"(set-logic QF_LIA)", "\n",
                               "(set-option :produce-models true)", "\n\n">>,
                  declared_vars |-> {}]
    IN  appended(constraints, start).output
            \o <<"\n", "(check-sat)", "\n", "(get-model)", "\n">>

(***************************************************************************)
(* crucible-core: Schema                                                   *)
(***************************************************************************)

EmptyMap == [n \in {} |-> n]

\* HashMap::insert
map_insert(map, key, value) ==
    [k \in DOMAIN map \cup {key} |-> IF k = key THEN value ELSE map[k]]

\* RandomState::new: the keys of a HashMap's hasher, kept as the order in which
\* they make the map lay out the names
RECURSIVE Orders(_)
Orders(S) ==
    IF S = {} THEN {<<>>} ELSE UNION {{<<e>> \o q : q \in Orders(S \ {e})} : e \in S}

RandomStates == Orders(Variables)

\* Schema::new
Schema_new(traceability_id, hash_builder) ==
    [fields |-> EmptyMap, documentation |-> EmptyMap, traceability_id |-> traceability_id,
     hash_builder |-> hash_builder]

\* Schema::get_type
get_type(schema, name) ==
    IF name \in DOMAIN schema.fields THEN schema.fields[name] ELSE "Int32"

NoDocs == [is_some |-> FALSE]
SomeDocs(doc) == [is_some |-> TRUE, value |-> doc]

add_field_keeps_first_type(schema, name, data_type, docs) ==
    LET inserted == IF name \in DOMAIN schema.fields THEN schema
                    ELSE [schema EXCEPT !.fields = map_insert(@, name, data_type)]
    IN  IF docs.is_some
        THEN [inserted EXCEPT !.documentation = map_insert(@, name, docs.value)]
        ELSE inserted

\* Schema::add_field
add_field(schema, name, data_type, docs) ==
    LET inserted == [schema EXCEPT !.fields = map_insert(@, name, data_type)]
    IN  IF docs.is_some
        THEN [inserted EXCEPT !.documentation = map_insert(@, name, docs.value)]
        ELSE inserted

(***************************************************************************)
(* Rust strings. A String is kept as the sequence of the pieces it was     *)
(* formatted from: the lines and key words of a template, a name, an       *)
(* operator symbol, the characters of a name that was taken apart.         *)
(* Concatenation is \o, the empty String is <<>>.                          *)
(***************************************************************************)

\* Vec::extend, with each in turn
RECURSIVE concat(_)
concat(seqs) == IF seqs = <<>> THEN <<>> ELSE seqs[1] \o concat(Tail(seqs))

\* [String]::join
RECURSIVE str_join(_, _)
str_join(parts, sep) ==
    IF parts = <<>> THEN <<>>
    ELSE IF Len(parts) = 1 THEN parts[1]
    ELSE parts[1] \o sep \o str_join(Tail(parts), sep)

\* str::contains
str_contains(s, pat) ==
    \E i \in 0..(Len(s) - Len(pat)) : SubSeq(s, i + 1, i + Len(pat)) = pat

\* str::starts_with
str_starts_with(s, pat) == Len(pat) <= Len(s) /\ SubSeq(s, 1, Len(pat)) = pat

\* the pieces that are white space only
Blank ==
    {"    ", "   ", " ", " \n        ", " \n    ", "\n            ", "\n        ",
     "\n    ", "\n   ", "\n  ", "\n ", "\n", "\n\n        ", "\n\n    ", "\n\n  ",
     "\n\n", "\n\n\n"}

\* str::trim: the String without its leading and trailing white space
str_trim(s) ==
    LET kept == {i \in DOMAIN s : s[i] \notin Blank}
    IN  IF kept = {} THEN <<>>
        ELSE SubSeq(s, CHOOSE i \in kept : \A j \in kept : i <= j,
                       CHOOSE i \in kept : \A j \in kept : j <= i)

\* str::lines().next()
str_first_line(s) ==
    IF s = <<>> THEN [is_some |-> FALSE]
    ELSE LET breaks == {i \in DOMAIN s : s[i] \in Blank \ {" ", "   ", "    "}}
         IN  [is_some |-> TRUE,
              value |-> IF breaks = {} THEN s
                        ELSE SubSeq(s, 1, (CHOOSE i \in breaks : \A j \in breaks : i <= j) - 1)]

\* the character U+0060, which no string of this notation can hold
grave_accent == "U+0060"

\* str::chars, for the names that occur
chars(name) == (("x" :> <<"x">>) @@ ("y" :> <<"y">>))[name]

\* char::to_uppercase: the characters a character is upper-cased to
to_uppercase(c) ==
    LET upper == ("a" :> <<"A">>) @@ ("b" :> <<"B">>) @@ ("x" :> <<"X">>)
                     @@ ("y" :> <<"Y">>) @@ ("ß" :> <<"S", "S">>)
    IN  IF c \in DOMAIN upper THEN upper[c] ELSE <<c>>

\* str::split
RECURSIVE split(_, _)
split(s, sep) ==
    LET at == {i \in DOMAIN s : s[i] = sep}
    IN  IF at = {} THEN <<s>>
        ELSE LET i == CHOOSE k \in at : \A j \in at : k <= j
             IN  <<SubSeq(s, 1, i - 1)>> \o split(SubSeq(s, i + 1, Len(s)), sep)

(***************************************************************************)
(* crucible-codegen: the strategies                                        *)
(***************************************************************************)

TargetLanguage ==
    {"Rust", "TypeScript", "Python", "Solidity", "SparkAda", "Zig", "Elixir"}

to_ada_case_first_only(name) ==
    IF name = <<>> THEN <<>> ELSE to_uppercase(Head(name)) \o Tail(name)

\* to_ada_case
to_ada_case(name) ==
    LET words == split(name, "_")
        cased == [i \in DOMAIN words |->
                     IF words[i] = <<>> THEN <<>>
                     ELSE to_uppercase(Head(words[i])) \o Tail(words[i])]
    IN  str_join(cased, <<"_">>)

format_operator_double_eq(language, op) ==
    CASE op = "GreaterThanOrEqual" -> ">="
      [] op = "LessThanOrEqual" -> "<="
      [] op = "GreaterThan" -> ">"
      [] op = "LessThan" -> "<"
      [] op = "Equal" -> "=="
      [] op = "NotEqual" -> "!="

\* CodegenStrategy::format_operator, by the strategy of the language
format_operator(language, op) ==
    CASE op = "GreaterThanOrEqual" -> ">="
      [] op = "LessThanOrEqual" -> "<="
      [] op = "GreaterThan" -> ">"
      [] op = "LessThan" -> "<"
      [] op = "Equal" ->
            IF language = "SparkAda" THEN "="
            ELSE IF language = "TypeScript" THEN "===" ELSE "=="
      [] op = "NotEqual" ->
            IF language = "SparkAda" THEN "/="
            ELSE IF language = "TypeScript" THEN "!==" ELSE "!="

\* CodegenStrategy::format_variable
format_variable(language, name) ==
    CASE language = "SparkAda" -> <<"Params.">> \o to_ada_case(chars(name))
      [] language = "Elixir" -> <<"params[:", name, "]">>
      [] language = "Python" -> <<"params['", name, "']">>
      [] OTHER -> <<"params.", name>>

\* CodegenStrategy::logical_and
logical_and(language) ==
    CASE language = "SparkAda" -> "and then"
      [] language \in {"Zig", "Elixir", "Python"} -> "and"
      [] OTHER -> "&&"

\* CodegenStrategy::logical_or
logical_or(language) ==
    CASE language = "SparkAda" -> "or else"
      [] language \in {"Zig", "Elixir", "Python"} -> "or"
      [] OTHER -> "||"

\* CodegenStrategy::logical_not
logical_not(language, expr) ==
    IF language \in {"SparkAda", "Elixir", "Python"}
    THEN <<"not (">> \o expr \o <<")">>
    ELSE <<"!(">> \o expr \o <<")">>

\* CodegenStrategy::wrap_assertion
wrap_assertion(language, condition) ==
    CASE language = "SparkAda" -> <<"pragma Assert", " (">> \o condition \o <<");">>
      [] language = "Zig" -> <<"std.debug.assert", "(">> \o condition \o <<");">>
      [] language = "Elixir" -> <<"assert", " ">> \o condition
      [] language = "Rust" -> <<"debug_assert!", "(">> \o condition \o <<");">>
      [] language = "Solidity" -> <<"require", "(">> \o condition \o <<");">>
      [] OTHER -> <<"assert", "(">> \o condition \o <<");">>

\* SparkAdaStrategy::collect_preconditions
RECURSIVE collect_preconditions(_)
collect_preconditions(compound) ==
    CASE compound.tag = "Simple" ->
            <<format_variable("SparkAda", compound.constraint.left_variable)
                \o <<" ", format_operator("SparkAda", compound.constraint.operator), " ",
                     compound.constraint.right_value>>>>
      [] compound.tag = "And" ->
            concat([i \in DOMAIN compound.children |->
                       collect_preconditions(compound.children[i])])
      [] OTHER -> <<>>

\* SparkAdaStrategy::extract_preconditions
extract_preconditions(compound) == collect_preconditions(compound)

\* SparkAdaStrategy::build_expression_body
RECURSIVE build_expression_body(_)
build_expression_body(compound) ==
    CASE compound.tag = "Simple" ->
            format_variable("SparkAda", compound.constraint.left_variable)
                \o <<" ", format_operator("SparkAda", compound.constraint.operator), " ",
                     compound.constraint.right_value>>
      [] compound.tag = "And" ->
            <<"(">> \o str_join([i \in DOMAIN compound.children |->
                                    build_expression_body(compound.children[i])],
                                <<" ", "and then", " ">>) \o <<")">>
      [] compound.tag = "Or" ->
            <<"(">> \o str_join([i \in DOMAIN compound.children |->
                                    build_expression_body(compound.children[i])],
                                <<" ", "or else", " ">>) \o <<")">>
      [] compound.tag = "Not" ->
            logical_not("SparkAda", build_expression_body(compound.child))

\* SparkAdaStrategy::build_postcondition
build_postcondition(compound) ==
    [is_some |-> TRUE,
     value |-> <<"Post =>", " (", "validate_intent", "'Result = ">>
                   \o build_expression_body(compound) \o <<")">>]

\* SparkAdaStrategy::emit_contracts
SparkAda_emit_contracts(compound) ==
    LET preconditions == extract_preconditions(compound)
        postcondition == build_postcondition(compound)
        pres == str_join([i \in DOMAIN preconditions |-> <<"        ">> \o preconditions[i]],
                         <<",\n">>)
        post == IF postcondition.is_some
                THEN (IF preconditions # <<>> THEN <<",\n">> ELSE <<>>)
                         \o <<"        ">> \o postcondition.value
                ELSE <<>>
    IN  IF preconditions = <<>> /\ ~postcondition.is_some
        THEN [is_some |-> FALSE]
        ELSE [is_some |-> TRUE, value |-> <<"   ", "with", "\n">> \o pres \o post]

\* CodegenStrategy::emit_contracts: only the SPARK/Ada strategy overrides the default
emit_contracts(language, compound) ==
    IF language = "SparkAda" THEN SparkAda_emit_contracts(compound) ELSE [is_some |-> FALSE]

\* ZigStrategy::is_static_constraint
RECURSIVE is_static_constraint(_)
is_static_constraint(compound) ==
    CASE compound.tag = "Simple" -> TRUE
      [] compound.tag \in {"And", "Or"} ->
            \A i \in DOMAIN compound.children : is_static_constraint(compound.children[i])
      [] compound.tag = "Not" -> is_static_constraint(compound.child)

\* CodegenStrategy::is_comptime_capable: only the Zig strategy overrides the default
is_comptime_capable(language, compound) ==
    IF language = "Zig" THEN is_static_constraint(compound) ELSE FALSE

\* CodegenStrategy::wrap_verified_function, by the strategy of the language
wrap_verified_function(language, func_name, contracts, body, assertions) ==
    CASE language = "SparkAda" ->
            LET assertions_block ==
                    IF assertions # <<>>
                    THEN str_trim(
                        <<"   ", "-- Runtime assertion checks", "\n   ">> \o assertions \o <<"\n">>)
                    ELSE <<>>
            IN
                <<"-- SPARK/Ada Generated Code - Formally Verifiable", "\n",
                    "-- Use GNATprove for mathematical verification: ", grave_accent,
                    "gnatprove -P<project> --level=4", grave_accent, "\n\n", "function", " ">> \o
                    <<func_name>> \o <<" ", "(Params : Validation_Params) return Boolean", "\n   ",
                    "with ", "SPARK_Mode => On">> \o contracts \o <<"\n", "is", "\n ", "begin", "\n"
                    >> \o assertions_block \o <<"   ", "return", " ">> \o body \o <<";", "\n ", "end",
                    " ">> \o <<func_name>> \o <<";">>
      [] language = "Zig" ->
            LET comptime_block ==
                    IF contracts # <<>>
                    THEN
                        <<"    ", "comptime", " {", "\n        ",
                            "// Compile-time contract validation", "\n        ">> \o contracts \o <<
                            "\n    ", "}", "\n">>
                    ELSE <<>>
                runtime_assertions ==
                    IF assertions # <<>>
                    THEN
                        <<"    ", "// Runtime assertion checks", "\n    ">> \o assertions \o <<"\n">>
                    ELSE <<>>
            IN
                <<"// Zig Generated Code - Memory Safe Systems Programming", "\n",
                    "// Compile-time and runtime verification", "\n\n",
                    "const std = @import(\"std\");", "\n\n", "pub const ValidationParams = struct {",
                    "\n    ", "// Define your validation parameters here", "\n", "};", "\n\n",
                    "pub fn", " ">> \o <<func_name>> \o <<"(params: ValidationParams) bool {", "\n"
                    >> \o comptime_block \o runtime_assertions \o <<"    ", "return", " ">> \o body \o
                    <<";", "\n", "}", "\n\n", "test \"">> \o <<func_name>> \o <<"\" {", "\n    ",
                    "const params = ValidationParams{};", "\n    ", "const result =", " ">> \o
                    <<func_name>> \o <<"(params);", "\n    ", "try std.testing.expect(result);", "\n",
                    "}">>
      [] language = "Elixir" ->
            LET assertions_code ==
                    IF assertions # <<>>
                    THEN str_trim(
                        <<"\n  ", "# Assertion checks", "\n  ">> \o assertions)
                    ELSE <<>>
            IN
                <<"# Elixir Generated Code - Fault-Tolerant Distributed Logic", "\n",
                    "# Guard clauses for compile-time pattern matching", "\n\n",
                    "defmodule Validator do", "\n  ", "@moduledoc \\\"\\\"\\\"", "\n  ",
                    "Auto-generated validation module from Crucible Intent specification.", "\n  ",
                    "\\\"\\\"\\\"", "\n\n  ", "@doc \\\"\\\"\\\"", "\n  ",
                    "Validates the given parameters against the intent constraints.", "\n  ",
                    "Returns {:ok, true} on success, {:error, reason} on failure.", "\n  ",
                    "\\\"\\\"\\\"", "\n  ", "@spec", " ">> \o <<func_name>> \o <<
                    "?(map()) :: {:ok, true} | {:error, atom()}", "\n">> \o contracts \o <<"\n\n  ",
                    "def", " ">> \o <<func_name>> \o <<
                    "?(params) when is_map(params) and is_integer(params[:amount]) and params[:amount] >= 0 do",
                    "\n">> \o body \o assertions_code \o <<"\n  ", "end", "\n\n  ", "def", " ">> \o
                    <<func_name>> \o <<
                    "?(params) when not is_map(params), do: {:error, :invalid_type}", "\n  ", "def", " "
                    >> \o <<func_name>> \o <<
                    "?(params) when not is_integer(params[:amount]), do: {:error, :invalid_amount_type}",
                    "\n  ", "def", " ">> \o <<func_name>> \o <<
                    "?(params) when params[:amount] < 0, do: {:error, :negative_amount}", "\n  ",
                    "def", " ">> \o <<func_name>> \o <<"?(_), do: {:error, :validation_failed}", "\n",
                    "end">>
      [] language = "Rust" ->
            LET assertions_code ==
                    IF assertions # <<>>
                    THEN str_trim(
                        <<"\n        ", "// Runtime assertion checks", "\n        ">> \o assertions)
                    ELSE <<>>
            IN
                <<"//! Rust Generated Code - Memory Safe with Formal Verification", "\n",
                    "//! Use with Kani for bounded model checking", "\n\n",
                    "/// Validation parameters structure", "\n", "#[derive(Debug, Clone)]", "\n",
                    "pub struct ValidationParams {", "\n    ",
                    "// Define your validation parameters here", "\n", "}">> \o contracts \o <<"\n\n",
                    "impl Validator {", "\n    ",
                    "/// Validates the given parameters against the intent constraints.", "\n    ",
                    "///", "\n    ", "/// # Returns", "\n    ", "/// ", grave_accent, "true",
                    grave_accent, " if all constraints are satisfied, ", grave_accent, "false",
                    grave_accent, " otherwise.", "\n    ", "#[inline]", "\n    ", "pub fn", " ">> \o
                    <<func_name>> \o <<"(&self, params: &ValidationParams) -> bool {", "\n">> \o
                    assertions_code \o <<"\n        ">> \o body \o <<"\n    ", "}", "\n", "}", "\n\n",
                    "#[cfg(kani)]", "\n", "mod verification {", "\n    ", "use super::*;", "\n\n    ",
                    "#[kani::proof]", "\n    ", "fn verify_">> \o <<func_name>> \o <<"() {",
                    "\n        ", "let validator = Validator;", "\n        ",
                    "let params = kani::any::<ValidationParams>();", "\n        ",
                    "let result = validator.">> \o <<func_name>> \o <<"(&params);", "\n        ",
                    "kani::cover!(result == true);", "\n        ", "kani::cover!(result == false);",
                    "\n    ", "}", "\n", "}">>
      [] language = "TypeScript" ->
            LET assertions_code ==
                    IF assertions # <<>>
                    THEN str_trim(
                        <<"\n    ", "// Runtime assertion checks", "\n    ">> \o assertions)
                    ELSE <<>>
            IN
                <<"// TypeScript Generated Code", "\n",
                    "// Use with ts-auto-guard for runtime type checking", "\n\n",
                    "export interface ValidationParams {", "\n  ",
                    "// Define your validation parameters here", "\n">> \o contracts \o <<"\n", "}",
                    "\n\n", "export class Validator {", "\n  ", "/**", "\n   ",
                    "* Validates the given parameters against the intent constraints.", "\n   ",
                    "* @param params - The parameters to validate", "\n   ",
                    "* @returns true if all constraints are satisfied", "\n   ", "*/", "\n  ",
                    "static", " ">> \o <<func_name>> \o <<"(params: ValidationParams): boolean {", "\n"
                    >> \o assertions_code \o <<"\n    ", "return", " ">> \o body \o <<";", "\n  ", "}",
                    "\n", "}">>
      [] language = "Python" ->
            LET assertions_code ==
                    IF assertions # <<>>
                    THEN str_trim(
                        <<"\n        ", "# Runtime assertion checks", "\n        ">> \o assertions)
                    ELSE <<>>
            IN
                <<"# Python Generated Code", "\n", "# Use with hypothesis for property-based testing",
                    "\n\n", "from typing import Dict, Any", "\n", "from dataclasses import dataclass",
                    "\n">> \o contracts \o <<"\n\n\n", "@dataclass", "\n", "class ValidationParams:",
                    "\n    ", "\"\"\"Validation parameters structure.\"\"\"", "\n    ",
                    "pass  # Define your validation parameters here", "\n\n\n", "class Validator:",
                    "\n    ",
                    "\"\"\"Auto-generated validator from Crucible Intent specification.\"\"\"",
                    "\n\n    ", "@staticmethod", "\n    ", "def", " ">> \o <<func_name>> \o <<
                    "(params: Dict[str, Any]) -> bool:", "\n        ", "\"\"\"", "\n        ",
                    "Validates the given parameters against the intent constraints.", "\n\n        ",
                    "Args:", "\n            ", "params: Dictionary of parameters to validate",
                    "\n\n        ", "Returns:", "\n            ",
                    "True if all constraints are satisfied, False otherwise", "\n        ", "\"\"\"",
                    "\n">> \o assertions_code \o <<"\n        ", "return", " ">> \o body \o <<"\n\n\n",
                    "# Property-based test example (requires hypothesis)", "\n",
                    "# from hypothesis import given, strategies as st", "\n",
                    "# @given(st.dictionaries(st.text(), st.integers()))", "\n", "# def test_">> \o
                    <<func_name>> \o <<"(params):", "\n", "#     result = Validator.">> \o
                    <<func_name>> \o <<"(params)", "\n", "#     assert isinstance(result, bool)">>
      [] language = "Solidity" ->
            LET assertions_code ==
                    IF assertions # <<>>
                    THEN str_trim(
                        <<"\n        ", "// Runtime assertion checks", "\n        ">> \o assertions)
                    ELSE <<>>
                first_line == str_first_line(str_trim(contracts))
                contracts_line ==
                    <<"// Contracts:", " ">> \o (IF first_line.is_some THEN first_line.value ELSE <<"none">>)
            IN
                <<"// SPDX-License-Identifier: MIT", "\n",
                    "// Solidity Generated Code - Smart Contract Verification", "\n",
                    "// Use with Slither for security analysis, Echidna for property testing", "\n"
                    >> \o contracts_line \o <<"\n", "contract Validator {", "\n    ",
                    "/// Validation modifier for reentrancy protection", "\n    ",
                    "modifier validate {", "\n        ", "_;", "\n        ",
                    "// Post-validation checks can go here", "\n    ", "}", "\n\n    ", "function", " "
                    >> \o <<func_name>> \o <<
                    "(ValidationParams memory params) public pure returns (bool) {", "\n">> \o
                    assertions_code \o <<"\n        ", "return", " ">> \o body \o <<";", "\n    ", "}",
                    "\n", "}">>

\* VerifiableStrategy::license_header, by the strategy of the language
license_header_without_id(language, traceability_id) ==
    <<"Generated Code", "\n">>

license_header(language, traceability_id) ==
    CASE language = "SparkAda" ->
            <<"-- SPARK/Ada Generated Code - Formally Verifiable (v0.1.5-alpha)", "\n",
                "-- Use GNATprove for mathematical verification: ", grave_accent,
                "gnatprove -P<project> --level=4", grave_accent, "\n",
                "-- Patent Application: 63/928,407", "\n", "-- Traceability ID:", " ">> \o
                <<traceability_id>> \o <<"\n",
                "-- Correct by Design, Verified by Construction", "\n">>
      [] language = "Zig" ->
            <<"// Zig Generated Code - Memory Safe Systems Programming (v0.1.5-alpha)", "\n",
                "// Compile-time verification via ", "comptime", " blocks", "\n",
                "// Patent Application: 63/928,407", "\n", "// Traceability ID:", " ">> \o
                <<traceability_id>> \o <<"\n",
                "// Correct by Design, Verified by Construction", "\n">>
      [] language = "Elixir" ->
            <<"# Elixir Generated Code - Fault-Tolerant Distributed Logic (v0.1.5-alpha)",
                "\n", "# Patent Application: 63/928,407", "\n", "# Traceability ID:", " ">> \o
                <<traceability_id>> \o <<"\n", "# Correct by Design, Verified by Construction",
                "\n\n">>
      [] language = "Rust" ->
            <<"//! Rust Generated Code - Memory Safe with Formal Verification (v0.1.5-alpha)",
                "\n", "//! Use with Kani for bounded model checking", "\n",
                "//! Patent Application: 63/928,407", "\n", "//! Traceability ID:", " ">> \o
                <<traceability_id>> \o <<"\n",
                "//! Correct by Design, Verified by Construction", "\n\n">>
      [] language = "TypeScript" ->
            <<"// TypeScript Generated Code (v0.1.5-alpha)", "\n",
                "// Use with ts-auto-guard for runtime type checking", "\n",
                "// Patent Application: 63/928,407", "\n", "// Traceability ID:", " ">> \o
                <<traceability_id>> \o <<"\n",
                "// Correct by Design, Verified by Construction", "\n\n">>
      [] language = "Python" ->
            <<"# Python Generated Code (v0.1.5-alpha)", "\n",
                "# Use with hypothesis for property-based testing", "\n",
                "# Patent Application: 63/928,407", "\n", "# Traceability ID:", " ">> \o
                <<traceability_id>> \o <<"\n", "# Correct by Design, Verified by Construction",
                "\n\n">>
      [] language = "Solidity" ->
            <<"// SPDX-License-Identifier: MIT", "\n",
                "// Solidity Generated Code - Smart Contract Verification (v0.1.5-alpha)",
                "\n",
                "// Use with Slither for security analysis, Echidna for property testing",
                "\n", "// Patent Application: 63/928,407", "\n", "// Traceability ID:", " "
                >> \o <<traceability_id>> \o <<"\n",
                "// Correct by Design, Verified by Construction", "\n\n">>

\* VerifiableStrategy::map_type
map_type(language, dt) ==
    CASE language = "SparkAda" ->
            (CASE dt \in {"Uint64", "Uint32"} -> "Natural"
               [] dt \in {"Int64", "Int32"} -> "Integer"
               [] dt = "String" -> "String"
               [] dt = "Bool" -> "Boolean"
               [] dt = "Decimal" -> "Long_Float")
      [] language = "Zig" ->
            (CASE dt = "Uint64" -> "u64" [] dt = "Uint32" -> "u32"
               [] dt = "Int64" -> "i64" [] dt = "Int32" -> "i32"
               [] dt = "String" -> "[]const u8"
               [] dt = "Bool" -> "bool"
               [] dt = "Decimal" -> "f64")
      [] language = "Elixir" ->
            (CASE dt \in {"Uint64", "Uint32", "Int64", "Int32"} -> "integer()"
               [] dt = "String" -> "String.t()"
               [] dt = "Bool" -> "boolean()"
               [] dt = "Decimal" -> "Decimal.t()")
      [] language = "Rust" ->
            (CASE dt = "Uint64" -> "u64" [] dt = "Uint32" -> "u32"
               [] dt = "Int64" -> "i64" [] dt = "Int32" -> "i32"
               [] dt = "String" -> "String"
               [] dt = "Bool" -> "bool"
               [] dt = "Decimal" -> "f64")
      [] language = "TypeScript" ->
            (CASE dt \in {"Uint64", "Uint32", "Int64", "Int32", "Decimal"} -> "number"
               [] dt = "String" -> "string"
               [] dt = "Bool" -> "boolean")
      [] language = "Python" ->
            (CASE dt \in {"Uint64", "Uint32", "Int64", "Int32"} -> "int"
               [] dt = "String" -> "str"
               [] dt = "Bool" -> "bool"
               [] dt = "Decimal" -> "Decimal")
      [] language = "Solidity" ->
            (CASE dt = "Uint64" -> "uint256" [] dt = "Uint32" -> "uint32"
               [] dt = "Int64" -> "int256" [] dt = "Int32" -> "int32"
               [] dt = "String" -> "string"
               [] dt = "Bool" -> "bool"
               [] dt = "Decimal" -> "int256")

\* VerifiableStrategy::emit_postcondition
emit_postcondition(language, expression, schema) ==
    CASE language = "SparkAda" ->
            <<"Post =>", " (validate_intent'Result = (">> \o expression \o <<"))">>
      [] language = "Zig" -> <<"// Verified Post-condition: ">> \o expression
      [] language = "Elixir" ->
            <<"# Post-condition: Returns true iff (">> \o expression \o <<")">>
      [] language = "Rust" ->
            <<"/// Post-condition: The function returns true iff the expression evaluates to true: ">>
                \o expression
      [] language = "TypeScript" ->
            <<"// Post-condition: Returns true iff (">> \o expression \o <<")">>
      [] language = "Python" ->
            <<"# Post-condition: Returns True iff (">> \o expression \o <<")">>
      [] language = "Solidity" ->
            <<"// Post-condition: Validated iff (">> \o expression \o <<")">>

\* HashMap::iter: the keys in the order the map's hasher lays them out
HashMap_iter(map, hash_builder) == SelectSeq(hash_builder, LAMBDA k : k \in DOMAIN map)

\* VerifiableStrategy::build_signature
build_signature(language, func_name, schema) ==
    LET names == HashMap_iter(schema.fields, schema.hash_builder)
        dt(i) == map_type(language, schema.fields[names[i]])
    IN  CASE language = "SparkAda" ->
                LET params == [i \in DOMAIN names |->
                                  to_ada_case(chars(names[i])) \o <<" : ", dt(i)>>]
                    params_str == IF params = <<>> THEN <<>>
                                  ELSE <<" (">> \o str_join(params, <<"; ">>) \o <<")">>
                IN  <<"function ", func_name>> \o params_str \o <<" return Boolean">>
          [] language = "Zig" ->
                LET fields == [i \in DOMAIN names |-> <<names[i], ": ", dt(i)>>]
                    fields_str == IF fields = <<>> THEN <<"{}">>
                                  ELSE <<"{ ">> \o str_join(fields, <<", ">>) \o <<" }">>
                IN  <<"pub fn ", func_name, "(params: ">> \o fields_str \o <<")">>
          [] language = "Elixir" ->
                LET fields == [i \in DOMAIN names |-> <<names[i], ": ", dt(i)>>]
                IN  <<"@spec ", func_name, "_params() :: map()", "\n  ", "def ", func_name,
                      "_params(), do: %{">> \o str_join(fields, <<", ">>) \o <<"}">>
          [] language = "Rust" ->
                LET fields == [i \in DOMAIN names |-> <<"pub ", names[i], ": ", dt(i)>>]
                    fields_str == IF fields = <<>> THEN <<>>
                                  ELSE <<"\n    ">> \o str_join(fields, <<",\n    ">>)
                IN  <<"pub struct ValidationParams { ">> \o fields_str \o <<"}">>
          [] language = "TypeScript" ->
                LET fields == [i \in DOMAIN names |-> <<names[i], ": ", dt(i)>>]
                    fields_str == IF fields = <<>> THEN <<"{ }">>
                                  ELSE <<"{ ">> \o str_join(fields, <<"; ">>) \o <<" }">>
                IN  <<"export interface ", func_name, "_Params ">> \o fields_str
          [] language = "Python" ->
                LET fields == [i \in DOMAIN names |-> <<names[i], ": ", dt(i)>>]
                    fields_str == IF fields = <<>>
                                  THEN <<"pass  # Define your validation parameters here">>
                                  ELSE <<"\n    ">> \o str_join(fields, <<"\n    ">>)
                IN  <<"@dataclass", "\n", "class ", func_name, "_Params:", "\n">> \o fields_str
          [] language = "Solidity" ->
                LET fields == [i \in DOMAIN names |-> <<dt(i), " ", names[i]>>]
                    fields_str == IF fields = <<>> THEN <<>>
                                  ELSE <<" (">> \o str_join(fields, <<", ">>) \o <<")">>
                IN  <<"function ", func_name>> \o fields_str

\* VerifiableStrategy::fn_end
fn_end(language) ==
    CASE language = "SparkAda" -> <<";">>
      [] language = "Elixir" -> <<"end">>
      [] language = "Python" -> <<>>
      [] OTHER -> <<"}">>

(***************************************************************************)
(* crucible-codegen: CodeGenerator                                         *)
(***************************************************************************)

RECURSIVE collect_assertions_skips_or(_, _)
collect_assertions_skips_or(compound, language) ==
    CASE compound.tag = "Simple" ->
            LET expr == format_variable(language, compound.constraint.left_variable)
                            \o <<" ", format_operator(language, compound.constraint.operator),
                                 " ", compound.constraint.right_value>>
            IN  <<wrap_assertion(language, expr)>>
      [] compound.tag = "And" ->
            concat([i \in DOMAIN compound.children |->
                       collect_assertions_skips_or(compound.children[i], language)])
      [] compound.tag = "Or" -> <<>>
      [] compound.tag = "Not" -> collect_assertions_skips_or(compound.child, language)

\* collect_assertions
RECURSIVE collect_assertions(_, _)
collect_assertions(compound, language) ==
    CASE compound.tag = "Simple" ->
            LET expr == format_variable(language, compound.constraint.left_variable)
                            \o <<" ", format_operator(language, compound.constraint.operator),
                                 " ", compound.constraint.right_value>>
            IN  <<wrap_assertion(language, expr)>>
      [] compound.tag \in {"And", "Or"} ->
            concat([i \in DOMAIN compound.children |->
                       collect_assertions(compound.children[i], language)])
      [] compound.tag = "Not" -> collect_assertions(compound.child, language)

\* build_assertions
build_assertions(compound, language) ==
    str_join(collect_assertions(compound, language), <<"\n    ">>)

RECURSIVE build_expression_flattens(_, _)
build_expression_flattens(compound, language) ==
    CASE compound.tag = "Simple" ->
            format_variable(language, compound.constraint.left_variable)
                \o <<" ", format_operator(language, compound.constraint.operator), " ",
                     compound.constraint.right_value>>
      [] compound.tag = "And" ->
            str_join([i \in DOMAIN compound.children |->
                         build_expression_flattens(compound.children[i], language)],
                     <<" ", logical_and(language), " ">>)
      [] compound.tag = "Or" ->
            str_join([i \in DOMAIN compound.children |->
                         build_expression_flattens(compound.children[i], language)],
                     <<" ", logical_or(language), " ">>)
      [] compound.tag = "Not" ->
            logical_not(language, build_expression_flattens(compound.child, language))

\* CodeGenerator::build_expression
RECURSIVE build_expression(_, _)
build_expression(compound, language) ==
    CASE compound.tag = "Simple" ->
            format_variable(language, compound.constraint.left_variable)
                \o <<" ", format_operator(language, compound.constraint.operator), " ",
                     compound.constraint.right_value>>
      [] compound.tag = "And" ->
            <<"(">> \o str_join([i \in DOMAIN compound.children |->
                                    build_expression(compound.children[i], language)],
                                <<" ", logical_and(language), " ">>) \o <<")">>
      [] compound.tag = "Or" ->
            <<"(">> \o str_join([i \in DOMAIN compound.children |->
                                    build_expression(compound.children[i], language)],
                                <<" ", logical_or(language), " ">>) \o <<")">>
      [] compound.tag = "Not" ->
            logical_not(language, build_expression(compound.child, language))

\* Option::unwrap_or_default
unwrap_or_default(option) == IF option.is_some THEN option.value ELSE <<>>

\* CodeGenerator::generate
generate(compound, language) ==
    LET expression == build_expression(compound, language)
        assertions == build_assertions(compound, language)
        contracts == unwrap_or_default(emit_contracts(language, compound))
        code == wrap_verified_function(language, "validate_intent", contracts, expression,
                                       assertions)
    IN  [is_ok |-> TRUE, language |-> language, code |-> code,
         constraints_count |-> count_constraints(compound)]

generate_with_schema_signature_first(compound, schema, language) ==
    [is_ok |-> TRUE, language |-> language,
     code |-> build_signature(language, "validate_intent", schema)
                  \o license_header(language, schema.traceability_id)
                  \o build_assertions(compound, language) \o <<"\n    ", "return", " ">>
                  \o build_expression(compound, language),
     constraints_count |-> count_constraints(compound)]

\* CodeGenerator::generate_with_schema
generate_with_schema(compound, schema, language) ==
    LET traceability_id == schema.traceability_id
        logic_expr == build_expression(compound, language)
        signature == build_signature(language, "validate_intent", schema)
        postcondition == emit_postcondition(language, logic_expr, schema)
        header == license_header(language, traceability_id)
        assertions == build_assertions(compound, language)
        contracts == unwrap_or_default(emit_contracts(language, compound))
        code == CASE language = "SparkAda" ->
                    header \o signature \o <<"\n   ", "with", " ">> \o contracts \o <<"\n">> \o
                        postcondition \o <<"\n", "is", "\n", "begin", "\n    ">> \o
                        assertions \o <<"\n    ", "return", " ">> \o logic_expr \o <<"\n">> \o
                        fn_end(language)
                  [] language = "Zig" ->
                    header \o signature \o <<"\n">> \o postcondition \o <<"\n    ">> \o
                        assertions \o <<"\n    ", "return", " ">> \o logic_expr \o <<"\n">> \o
                        fn_end(language)
                  [] language = "Rust" ->
                    header \o signature \o <<"\n">> \o postcondition \o <<"\n",
                        "impl Validator {", " \n    ",
                        "pub fn validate_intent(&self, params: &ValidationParams) -> bool {",
                        " \n        ">> \o assertions \o <<"\n        ">> \o logic_expr \o <<
                        "\n    ", "}", "\n", "}">>
                  [] language = "Solidity" ->
                    header \o <<"\n", "contract Validator {", " \n    ">> \o signature \o <<
                        "\n    ">> \o postcondition \o <<"\n    ">> \o assertions \o <<
                        "\n        ", "return", " ">> \o logic_expr \o <<"\n    ", "}", "\n",
                        "}">>
                  [] language = "Python" ->
                    header \o signature \o <<"\n\n", "class Validator:", "\n    ",
                        "@staticmethod", "\n    ", "def validate_intent(params) -> bool:",
                        "\n        ">> \o postcondition \o <<"\n        ">> \o assertions \o <<
                        "\n        ", "return", " ">> \o logic_expr
                  [] language = "TypeScript" ->
                    header \o signature \o <<"\n\n", "export class Validator {", " \n    ",
                        "static validate_intent(params: any): boolean {", " \n        ">> \o
                        postcondition \o <<"\n        ">> \o assertions \o <<"\n        ",
                        "return", " ">> \o logic_expr \o <<"\n    ", "}", "\n", "}">>
                  [] language = "Elixir" ->
                    header \o signature \o <<"\n\n", "defmodule Validator do", "\n    ">> \o
                        postcondition \o <<"\n    ", "def validate_intent?(params) do",
                        "\n        ">> \o assertions \o <<"\n        ">> \o logic_expr \o <<
                        "\n        ">> \o fn_end(language) \o <<"\n    ", "end", "\n", "end">>
    IN  [is_ok |-> TRUE, language |-> language, code |-> code,
         constraints_count |-> count_constraints(compound)]

(***************************************************************************)
(* crucible-parser: the adapter from the syntax tree to requirements. The  *)
(* tree is what the Tree-Sitter parser hands over: the root's children,    *)
(* each with its kind, its byte range and its own children.                *)
(***************************************************************************)

None == [is_some |-> FALSE]
Some(v) == [is_some |-> TRUE, value |-> v]

\* the first child of the kind, if any
first_child(node, kind) ==
    LET at == {i \in DOMAIN node.children : node.children[i].kind = kind}
    IN  IF at = {} THEN None
        ELSE Some(node.children[CHOOSE i \in at : \A j \in at : i <= j])

\* extract_subject
extract_subject(node) ==
    LET child == first_child(node, "subject")
    IN  IF child.is_some THEN Some(child.value.text) ELSE None

\* extract_modal_verb
extract_modal_verb(node) ==
    LET child == first_child(node, "modal_verb")
    IN  IF child.is_some THEN Some(child.value.text) ELSE None

\* parse_action_node, of an action node without children
parse_action_node(node) ==
    Some([verb |-> "Other(unknown)", object |-> "", preposition |-> None, target |-> None])

\* extract_action
extract_action(node) ==
    LET child == first_child(node, "action")
    IN  IF child.is_some THEN parse_action_node(child.value) ELSE None

\* parse_requirement_node
parse_requirement_node(node) ==
    LET subject == extract_subject(node)
        modal_verb == extract_modal_verb(node)
        action == extract_action(node)
    IN  IF ~subject.is_some THEN None
        ELSE IF ~modal_verb.is_some THEN None
        ELSE IF ~action.is_some THEN None
        ELSE Some([subject |-> subject.value, modal_verb |-> modal_verb.value,
                   action |-> action.value, condition |-> None, constraint |-> None])

\* extract_requirements
RECURSIVE extract_requirements(_)
extract_requirements(children) ==
    IF children = <<>> THEN <<>>
    ELSE LET child == Head(children)
             req == parse_requirement_node(child)
         IN  (IF child.kind = "requirement" /\ req.is_some THEN <<req.value>> ELSE <<>>)
                 \o extract_requirements(Tail(children))

\* parse, from the tree on
parse(tree) ==
    IF tree.has_error
    THEN [is_ok |-> FALSE, error |-> "Parse error in input"]
    ELSE [is_ok |-> TRUE, value |-> [requirements |-> extract_requirements(tree.children)]]

(***************************************************************************)
(* Inputs explored                                                         *)
(***************************************************************************)

\* the leaves of the compound trees of more than one node
PoolConstraints ==
    {Constraint("x", "GreaterThanOrEqual", "0"), Constraint("x", "LessThan", "y"),
     Constraint("y", "Equal", "1"), Constraint("y", "NotEqual", "x")}

\* the constraints given to a verifier that is called repeatedly
AgainConstraints ==
    {Constraint("x", "GreaterThanOrEqual", "0"), Constraint("x", "GreaterThan", "0"),
     Constraint("x", "LessThan", "0"), Constraint("y", "LessThan", "x")}

\* the trees of exactly n nodes with leaves in P; Forests(P, n): the
\* non-empty child lists of n nodes in all
RECURSIVE TreesOfSize(_, _)
RECURSIVE Forests(_, _)
Forests(P, n) ==
    IF n = 0 THEN {<<>>}
    ELSE UNION {{<<t>> \o f : t \in TreesOfSize(P, k), f \in Forests(P, n - k)} : k \in 1..n}

TreesOfSize(P, n) ==
    IF n = 1 THEN {Simple(c) : c \in P} \cup {And(<<>>), Or(<<>>)}
    ELSE {Not(t) : t \in TreesOfSize(P, n - 1)}
         \cup {And(f) : f \in Forests(P, n - 1)} \cup {Or(f) : f \in Forests(P, n - 1)}

TreesUpTo(P, n) == UNION {TreesOfSize(P, k) : k \in 1..n}

\* every leaf alone and negated, and the trees over the pool
CompoundInputs ==
    {Simple(c) : c \in Constraints} \cup {Not(Simple(c)) : c \in Constraints}
        \cup TreesUpTo(PoolConstraints, MaxNodes)

\* the schemas handed to generate_with_schema
Schemas ==
    {Schema_new("CRU-TRACE-001", <<"x", "y">>)}
        \cup {add_field(add_field(Schema_new("CRU-TRACE-002", hash_builder),
                                  "x", "Uint64", SomeDocs("balance")),
                        "y", "Uint64", NoDocs) : hash_builder \in RandomStates}

RECURSIVE SeqsUpTo(_, _)
SeqsUpTo(S, n) ==
    IF n = 0 THEN {<<>>}
    ELSE SeqsUpTo(S, n - 1) \cup {Append(q, e) : q \in SeqsUpTo(S, n - 1), e \in S}

\* the trees handed to the adapter. The children of the root are requirement
\* nodes, each with its subject, modal verb and action there or not, and
\* nodes of another kind; the node at position i covers 64 bytes of the text.
CstTrees ==
    LET all == <<[kind |-> "subject", text |-> "User"], [kind |-> "modal_verb", text |-> "can"],
                 [kind |-> "action", text |-> "withdraw money"]>>
        parts == {SelectSeq(all, LAMBDA part : part.kind \in kinds)
                     : kinds \in SUBSET {"subject", "modal_verb", "action"}}
        nodes == {[kind |-> "requirement", children |-> p] : p \in parts}
                     \cup {[kind |-> "comment", children |-> <<>>]}
        at(node, i) == [kind |-> node.kind, children |-> node.children,
                        byte_range |-> [start |-> 64 * (i - 1), end |-> 64 * i - 1]]
    IN  {[has_error |-> e, children |-> [i \in DOMAIN ns |-> at(ns[i], i)]]
            : e \in BOOLEAN, ns \in SeqsUpTo(nodes, MaxCstNodes)}

(***************************************************************************)
(* crucible-api: the two handlers                                          *)
(***************************************************************************)

NoResponse == [handler |-> "none"]

\* POST /api/requirements: builds a local IntentAst, adds to it, returns
\* the last requirement of that local value.
api_add_requirement(astId, reqId, content) ==
    LET local == add_requirement(IntentAst_new(astId), reqId, content)
    IN  [handler |-> "add_requirement",
         success |-> TRUE,
         data    |-> local.requirements[Len(local.requirements)],
         message |-> "Requirement added"]

\* GET /api/ast: returns a newly built IntentAst.
api_get_ast(astId) ==
    [handler |-> "get_ast",
     success |-> TRUE,
     data    |-> IntentAst_new(astId),
     message |-> "Intent-AST retrieved"]

(***************************************************************************)
(* Actions                                                                 *)
(***************************************************************************)

verifierVars == <<input, call, ret, checked>>
astVars == <<ast, pass>>
apiVars == <<apiReturned, apiResponse>>
schemaVars == <<registry, added, emitted>>

NoCall == [fn |-> "none"]

AddRequirement ==
    /\ Len(ast.requirements) < MaxReqs
    /\ \E id \in Uuids, content \in Contents :
           ast' = add_requirement(ast, id, content)
    /\ UNCHANGED <<schemaVars, pass, apiVars, verifierVars>>

\* a verification pass over the constraints of requirement i: the caller
\* hands verify_constraints a shared borrow of the list
VerifyRequirement ==
    /\ \E i \in DOMAIN ast.requirements :
         \E r \in verify_constraints(ast.requirements[i].constraints).returns :
           pass' = [ran |-> TRUE, requirement |-> i, outcome |-> r]
    /\ UNCHANGED <<schemaVars, ast, apiVars, verifierVars>>

ApiAddRequirement ==
    /\ Len(apiReturned) < MaxCalls
    /\ \E astId \in Uuids, reqId \in Uuids, content \in Contents :
           /\ apiResponse' = api_add_requirement(astId, reqId, content)
           /\ apiReturned' = Append(apiReturned, apiResponse'.data)
    /\ UNCHANGED <<schemaVars, astVars, verifierVars>>

ApiGetAst ==
    /\ \E astId \in Uuids : apiResponse' = api_get_ast(astId)
    /\ UNCHANGED <<schemaVars, astVars, apiReturned, verifierVars>>

\* the three entry points of crucible-verification, on given arguments
CallVerifyConstraints(constraints) ==
    LET run == verify_constraints(constraints)
    IN  /\ call' = [fn |-> "verify_constraints", constraints |-> constraints]
        /\ checked' = run.checked
        /\ ret' \in run.returns
        /\ UNCHANGED <<schemaVars, astVars, apiVars, input>>

CallVerifyCompound(compound) ==
    LET run == verify_compound_constraints(compound)
    IN  /\ call' = [fn |-> "verify_compound_constraints", compound |-> compound]
        /\ checked' = run.checked
        /\ ret' \in run.returns
        /\ UNCHANGED <<schemaVars, astVars, apiVars, input>>

CallCheckEquivalence(constraint1, constraint2) ==
    LET run == check_equivalence(constraint1, constraint2)
    IN  /\ call' = [fn |-> "check_equivalence",
                    constraint1 |-> constraint1, constraint2 |-> constraint2]
        /\ checked' = run.checked
        /\ ret' \in run.returns
        /\ UNCHANGED <<schemaVars, astVars, apiVars, input>>

\* one Z3Verifier called again and again
VerifyConstraintsAgain ==
    \E cs \in SeqsUpTo(AgainConstraints, MaxConstraints) : CallVerifyConstraints(cs)

VerifyCompoundAgain ==
    \E t \in TreesUpTo(AgainConstraints, MaxAgainNodes) : CallVerifyCompound(t)

CheckEquivalenceAgain ==
    \E c1 \in AgainConstraints, c2 \in AgainConstraints : CallCheckEquivalence(c1, c2)

\* one call on the compound tree drawn at the start
VerifyCompound ==
    /\ call = NoCall
    /\ CallVerifyCompound(input)

VerifySingle ==
    /\ call = NoCall
    /\ input.tag = "Simple"
    /\ LET run == verify_single_constraint(input.constraint)
       IN  /\ call' = [fn |-> "verify_constraints", constraints |-> <<input.constraint>>]
           /\ checked' = run.checked
           /\ ret' \in run.returns
    /\ UNCHANGED <<schemaVars, astVars, apiVars, input>>

CountConstraints ==
    /\ call = NoCall
    /\ call' = [fn |-> "count_constraints", compound |-> input]
    /\ ret' = count_constraints(input)
    /\ UNCHANGED <<schemaVars, astVars, apiVars, input, checked>>

Generate ==
    /\ call = NoCall
    /\ \E language \in TargetLanguage :
           /\ call' = [fn |-> "generate", compound |-> input, language |-> language]
           /\ ret' = generate(input, language)
    /\ UNCHANGED <<schemaVars, astVars, apiVars, input, checked>>

GenerateWithSchema ==
    /\ call = NoCall
    /\ \E language \in TargetLanguage, schema \in Schemas :
           /\ call' = [fn |-> "generate_with_schema", compound |-> input,
                       schema |-> schema, language |-> language]
           /\ ret' = generate_with_schema(input, schema, language)
    /\ UNCHANGED <<schemaVars, astVars, apiVars, input, checked>>

\* the SPARK/Ada strategy asked for the contracts of the tree drawn at the start
EmitContracts ==
    /\ call = NoCall
    /\ call' = [fn |-> "emit_contracts", compound |-> input]
    /\ ret' = SparkAda_emit_contracts(input)
    /\ UNCHANGED <<schemaVars, astVars, apiVars, input, checked>>

\* the owner of the schema adds a field
AddField ==
    /\ Len(added) < MaxAdds
    /\ \E name \in Variables, data_type \in {"Uint64", "Int32"},
          docs \in {NoDocs, SomeDocs("balance")} :
           /\ registry' = add_field(registry, name, data_type, docs)
           /\ added' = Append(added, [name |-> name, data_type |-> data_type, docs |-> docs])
    /\ UNCHANGED <<emitted, astVars, apiVars, verifierVars>>

\* a lookup in the schema
GetType ==
    /\ call = NoCall
    /\ \E name \in Variables :
           /\ call' = [fn |-> "get_type", name |-> name]
           /\ ret' = get_type(registry, name)
    /\ UNCHANGED <<schemaVars, astVars, apiVars, input, checked>>

\* an emission that borrows the schema
EmitWithSchema ==
    /\ Len(emitted) < MaxEmissions
    /\ emitted' = Append(emitted,
                         [schema |-> registry,
                          output |-> generate_with_schema(input.compound, registry,
                                                          input.language)])
    /\ UNCHANGED <<registry, added, astVars, apiVars, verifierVars>>

\* the schema is built once more by the same calls, as a new value with a hasher
\* of its own (as sample_schema() does for every caller)
BuildAgain ==
    /\ LET RECURSIVE add_fields(_, _)
           add_fields(schema, adds) ==
               IF adds = <<>> THEN schema
               ELSE add_fields(add_field(schema, adds[1].name, adds[1].data_type,
                                         adds[1].docs),
                               Tail(adds))
       IN  \E hash_builder \in RandomStates \ {registry.hash_builder} :
               registry' = add_fields(Schema_new(registry.traceability_id, hash_builder),
                                      added)
    /\ UNCHANGED <<added, emitted, astVars, apiVars, verifierVars>>

\* to_ada_case on the name drawn at the start
ToAdaCase ==
    /\ call = NoCall
    /\ call' = [fn |-> "to_ada_case", name |-> input]
    /\ ret' = to_ada_case(input)
    /\ UNCHANGED <<schemaVars, astVars, apiVars, input, checked>>

\* parse on the tree drawn at the start
Parse ==
    /\ call = NoCall
    /\ call' = [fn |-> "parse", tree |-> input]
    /\ ret' = parse(input)
    /\ UNCHANGED <<schemaVars, astVars, apiVars, input, checked>>

\* the SMT-LIB text asked for the list of constraints drawn at the start
GenerateSmtLib ==
    /\ call = NoCall
    /\ call' = [fn |-> "generate_smt_lib", constraints |-> input]
    /\ ret' = generate_smt_lib(input)
    /\ UNCHANGED <<schemaVars, astVars, apiVars, input, checked>>

\* one check_equivalence call on the pair of constraints drawn at the start
CheckEquivalence ==
    /\ call = NoCall
    /\ CallCheckEquivalence(input[1], input[2])

(***************************************************************************)
(* Specifications                                                          *)
(***************************************************************************)

InitIdle ==
    /\ registry = Schema_new("CRU-TRACE-001", <<"x", "y">>)
    /\ added = <<>>
    /\ emitted = <<>>
    /\ pass = [ran |-> FALSE]
    /\ apiReturned = <<>>
    /\ apiResponse = NoResponse
    /\ call = NoCall
    /\ ret = [is_ok |-> FALSE, error |-> "none"]
    /\ checked = <<>>

InitAst ==
    /\ \E id \in Uuids : ast = IntentAst_new(id)
    /\ input = <<>>
    /\ InitIdle

NextAst == AddRequirement \/ VerifyRequirement

SpecAst == InitAst /\ [][NextAst]_vars

InitApi == InitAst

NextApi == ApiAddRequirement \/ ApiGetAst

SpecApi == InitApi /\ [][NextApi]_vars

InitVerifier == InitAst

NextVerifier == VerifyConstraintsAgain \/ VerifyCompoundAgain \/ CheckEquivalenceAgain

SpecVerifier == InitVerifier /\ [][NextVerifier]_vars

InitCompound ==
    /\ ast = IntentAst_new(1)
    /\ input \in CompoundInputs
    /\ InitIdle

NextCompound ==
    \/ VerifyCompound \/ VerifySingle \/ CountConstraints
    \/ Generate \/ GenerateWithSchema \/ EmitContracts

SpecCompound == InitCompound /\ [][NextCompound]_vars

InitLeaf ==
    /\ ast = IntentAst_new(1)
    /\ input \in Constraints \X Constraints
    /\ InitIdle

NextLeaf == CheckEquivalence

SpecLeaf == InitLeaf /\ [][NextLeaf]_vars

InitSchema ==
    /\ ast = IntentAst_new(1)
    /\ input \in [compound : {And(<<Simple(Constraint("x", "GreaterThanOrEqual", "y")),
                                      Simple(Constraint("y", "GreaterThan", "0"))>>)},
                   language : TargetLanguage]
    /\ \E hash_builder \in RandomStates :
           registry = Schema_new("CRU-TRACE-001", hash_builder)
    /\ added = <<>>
    /\ emitted = <<>>
    /\ pass = [ran |-> FALSE]
    /\ apiReturned = <<>>
    /\ apiResponse = NoResponse
    /\ call = NoCall
    /\ ret = [is_ok |-> FALSE, error |-> "none"]
    /\ checked = <<>>

NextSchema == AddField \/ GetType \/ EmitWithSchema \/ BuildAgain

SpecSchema == InitSchema /\ [][NextSchema]_vars

InitAdaCase ==
    /\ ast = IntentAst_new(1)
    /\ input \in SeqsUpTo({"a", "b", "_", "B", "1", "ß"}, MaxNameLen)
    /\ InitIdle

NextAdaCase == ToAdaCase

SpecAdaCase == InitAdaCase /\ [][NextAdaCase]_vars

InitParse ==
    /\ ast = IntentAst_new(1)
    /\ input \in CstTrees
    /\ InitIdle

NextParse == Parse

SpecParse == InitParse /\ [][NextParse]_vars

\* Lists: a list of constraints, given to one call
InitLists ==
    /\ ast = IntentAst_new(1)
    /\ input \in SeqsUpTo(Constraints, MaxList)
    /\ InitIdle

NextLists == GenerateSmtLib

SpecLists == InitLists /\ [][NextLists]_vars


(***************************************************************************)
(* Reference semantics of the constraint algebra: integer comparison per   *)
(* operator, a right value that parses as i64 is a literal, any other is a *)
(* variable, And/Or/Not are the boolean connectives.                       *)
(***************************************************************************)

RightOperand(c, env) ==
    IF parse_i64(c.right_value).is_ok THEN parse_i64(c.right_value).val
    ELSE env[c.right_value]

EvalConstraint(c, env) ==
    LET l == env[c.left_variable]
        r == RightOperand(c, env)
    IN  CASE c.operator = "GreaterThanOrEqual" -> l >= r
          [] c.operator = "LessThanOrEqual"    -> l <= r
          [] c.operator = "GreaterThan"        -> l > r
          [] c.operator = "LessThan"           -> l < r
          [] c.operator = "Equal"              -> l = r
          [] c.operator = "NotEqual"           -> l # r

RECURSIVE EvalCompound(_, _)
EvalCompound(t, env) ==
    CASE t.tag = "Simple" -> EvalConstraint(t.constraint, env)
      [] t.tag = "Not"    -> ~EvalCompound(t.child, env)
      [] t.tag = "And"    -> \A i \in DOMAIN t.children : EvalCompound(t.children[i], env)
      [] t.tag = "Or"     -> \E i \in DOMAIN t.children : EvalCompound(t.children[i], env)

\* the Simple leaves of a tree, left to right
RECURSIVE LeavesOf(_)
RECURSIVE LeavesOfAll(_)
LeavesOfAll(ts) == IF ts = <<>> THEN <<>> ELSE LeavesOf(ts[1]) \o LeavesOfAll(Tail(ts))
LeavesOf(t) ==
    CASE t.tag = "Simple" -> <<t.constraint>>
      [] t.tag = "Not"    -> LeavesOf(t.child)
      [] OTHER            -> LeavesOfAll(t.children)

ConstraintNames(c) ==
    {c.left_variable} \cup (IF parse_i64(c.right_value).is_ok THEN {} ELSE {c.right_value})

NamesOf(leaves) == UNION {ConstraintNames(leaves[i]) : i \in DOMAIN leaves}

LiteralsOf(leaves) ==
    {parse_i64(leaves[i].right_value).val :
        i \in {j \in DOMAIN leaves : parse_i64(leaves[j].right_value).is_ok}} \cup {0}

\* the integers that decide a boolean combination of the given leaves
RefWindow(leaves) ==
    LET r == Min2(Cardinality(NamesOf(leaves)), Len(leaves))
    IN  (SetMin(LiteralsOf(leaves)) - r) .. (SetMax(LiteralsOf(leaves)) + r)

RefEnvs(leaves) == [NamesOf(leaves) -> RefWindow(leaves)]

\* the integer a model entry denotes
Z3NumeralValue(text) == IF text.open = "" THEN text.digits ELSE 0 - text.digits

RECURSIVE IsSubSeq(_, _)
IsSubSeq(a, b) ==
    IF a = <<>> THEN TRUE
    ELSE IF b = <<>> THEN FALSE
    ELSE IF a[1] = b[1] THEN IsSubSeq(Tail(a), Tail(b))
    ELSE IsSubSeq(a, Tail(b))

(***************************************************************************)
(* Properties                                                              *)
(***************************************************************************)

\* C1: after IntentAst::new and after every add_requirement,
\* correctness_score is 100 x (number of verified requirements) / (number
\* of requirements) when the list is non-empty, and exactly 0 when empty.
C1_ScoreInvariant ==
    LET reqs == ast.requirements
        nVerified == Cardinality({i \in 1..Len(reqs) : reqs[i].verified = TRUE})
        score == ast.correctness_score
    IN  /\ score.den > 0
        /\ IF Len(reqs) = 0 THEN score.num = 0
           ELSE score.num * Len(reqs) = 100 * nVerified * score.den

C1_Witness ==
    /\ Len(ast.requirements) >= 2
    /\ ast.correctness_score.den = Len(ast.requirements)

\* C2: the AST starts with no requirement and only grows: a step that
\* changes it appends exactly one requirement at the end and leaves every
\* earlier requirement as it was, at its position.
C2_AppendOnly ==
    /\ ast.requirements = <<>>
    /\ [][ast'.requirements # ast.requirements =>
            /\ Len(ast'.requirements) = Len(ast.requirements) + 1
            /\ \A i \in 1..Len(ast.requirements) :
                   ast'.requirements[i] = ast.requirements[i]]_vars

C2_Witness ==
    /\ Len(ast.requirements) >= 2
    /\ ast.requirements[1] # ast.requirements[2]

\* C3: a requirement starts with verified = false, and its flag is true
\* after a step only if it was true before or the step was a verification
\* pass over that requirement that succeeded.
C3_VerifiedOnlyByPass ==
    /\ \A i \in DOMAIN ast.requirements : ast.requirements[i].verified = FALSE
    /\ [][\A i \in DOMAIN ast'.requirements :
            ast'.requirements[i].verified = TRUE =>
               \/ /\ i \in DOMAIN ast.requirements
                  /\ ast.requirements[i].verified = TRUE
               \/ /\ pass' # pass
                  /\ pass'.ran
                  /\ pass'.requirement = i
                  /\ pass'.outcome.is_ok]_vars

C3_Witness ==
    /\ pass.ran
    /\ pass.outcome.is_ok
    /\ Len(ast.requirements) >= 2
    /\ \A i \in DOMAIN ast.requirements : ast.requirements[i].verified = FALSE

\* C4: a get_ast response holds every requirement the add_requirement
\* calls before it returned, in the order they were added.
C4_GetAstHoldsAdded ==
    apiResponse.handler = "get_ast" =>
        IsSubSeq(apiReturned, apiResponse.data.requirements)

\* C5: at every solver.check() the solver holds the formulas of the
\* current call and no other: nothing asserted by an earlier call on the
\* same verifier, nothing asserted for the first check of
\* check_equivalence; so the verdict is the one the arguments alone decide.
C5_ExpectedChecked ==
    CASE call.fn = "verify_constraints" ->
            <<[i \in DOMAIN call.constraints |->
                  translate_constraint(call.constraints[i], EmptyVarMap).expr]>>
      [] call.fn = "verify_compound_constraints" ->
            <<<<translate_compound(call.compound, EmptyVarMap).expr>>>>
      [] call.fn = "check_equivalence" ->
            LET e1 == translate_constraint(call.constraint1, EmptyVarMap).expr
                e2 == translate_constraint(call.constraint2, EmptyVarMap).expr
            IN  <<<<e1, Z3Not(e2)>>, <<e2, Z3Not(e1)>>>>
      [] OTHER -> <<>>

C5_ArgumentsSatisfiable ==
    LET leaves == IF call.fn = "verify_constraints" THEN call.constraints
                  ELSE LeavesOf(call.compound)
        tree == IF call.fn = "verify_constraints"
                THEN And([i \in DOMAIN leaves |-> Simple(leaves[i])])
                ELSE call.compound
    IN  \E env \in RefEnvs(leaves) : EvalCompound(tree, env)

C5_FreshSolverState ==
    /\ checked = C5_ExpectedChecked
    /\ call.fn \in {"verify_constraints", "verify_compound_constraints"} =>
           (ret.is_ok <=> C5_ArgumentsSatisfiable)

\* check_equivalence found c1 => c2 at its first check and a model of
\* c2 /\ ~c1 at its second
C5_Witness ==
    /\ call.fn = "check_equivalence"
    /\ Len(checked) = 2
    /\ solver_check([assertions |-> checked[1]]) = "Unsat"
    /\ solver_check([assertions |-> checked[2]]) = "Sat"
    /\ ret.is_ok /\ ~ret.value

\* C6: when verify_compound_constraints returns Ok with a model, the
\* tree is true under the model, read with the reference semantics (a
\* variable the model leaves out may take any value).
C6_ModelValues ==
    [n \in DOMAIN ret.model |-> Z3NumeralValue(ret.model[n])]

C6_ModelSatisfiesTree ==
    (call.fn = "verify_compound_constraints" /\ ret.is_ok) =>
        LET leaves == LeavesOf(call.compound)
            names == NamesOf(leaves)
            m == C6_ModelValues
            window == RefWindow(leaves) \cup {m[n] : n \in DOMAIN m}
        IN  /\ ret.satisfiable
            /\ DOMAIN m \subseteq names
            /\ \A env \in [names -> window] :
                   (\A n \in DOMAIN m : env[n] = m[n]) => EvalCompound(call.compound, env)

C6_Witness ==
    /\ call.fn = "verify_compound_constraints"
    /\ ret.is_ok
    /\ call.compound.tag = "Or"
    /\ Len(call.compound.children) >= 2
    /\ \E n \in DOMAIN ret.model : ret.model[n].open # ""

dual(op) ==
    CASE op = "LessThan"           -> "GreaterThanOrEqual"
      [] op = "GreaterThanOrEqual" -> "LessThan"
      [] op = "GreaterThan"        -> "LessThanOrEqual"
      [] op = "LessThanOrEqual"    -> "GreaterThan"
      [] op = "Equal"              -> "NotEqual"
      [] op = "NotEqual"           -> "Equal"

\* C7: the formula asserted for Not(Simple{l, op, r}) is true under
\* exactly the integer assignments under which the translation of
\* Simple{l, dual(op), r} is true.
C7_NotIsDual ==
    (/\ call.fn = "verify_compound_constraints"
     /\ call.compound.tag = "Not"
     /\ call.compound.child.tag = "Simple") =>
        LET c == call.compound.child.constraint
            d == Constraint(c.left_variable, dual(c.operator), c.right_value)
            not_expr == checked[1][1]
            dual_expr == translate_compound(Simple(d), EmptyVarMap).expr
        IN  /\ Len(checked) = 1 /\ Len(checked[1]) = 1
            /\ \A env \in RefEnvs(<<c>>) : Z3Eval(not_expr, env) <=> Z3Eval(dual_expr, env)
            /\ \A env \in RefEnvs(<<c>>) : Z3Eval(not_expr, env) <=> EvalConstraint(d, env)

C7_Witness ==
    /\ call.fn = "verify_compound_constraints"
    /\ call.compound = Not(Simple(Constraint("x", "GreaterThan", "y")))
    /\ checked # <<>>
    /\ ret.is_ok

\* C8: check_equivalence(a, b) checks a /\ ~b, then b /\ ~a, and returns
\* true exactly when both are Unsat, that is exactly when a and b hold
\* under the same integer assignments.
C8_EquivalenceExact ==
    call.fn = "check_equivalence" =>
        LET a == call.constraint1
            b == call.constraint2
            envs == RefEnvs(<<a, b>>)
            Holds(fs, env) == \A i \in DOMAIN fs : Z3Eval(fs[i], env)
        IN  /\ ret.is_ok
            /\ Len(checked) = 2
            /\ \A env \in envs :
                   Holds(checked[1], env) <=> (EvalConstraint(a, env) /\ ~EvalConstraint(b, env))
            /\ \A env \in envs :
                   Holds(checked[2], env) <=> (EvalConstraint(b, env) /\ ~EvalConstraint(a, env))
            /\ ret.value <=> (/\ \A env \in envs : ~Holds(checked[1], env)
                              /\ \A env \in envs : ~Holds(checked[2], env))
            /\ ret.value <=> \A env \in envs : EvalConstraint(a, env) <=> EvalConstraint(b, env)

C8_Witness ==
    /\ call.fn = "check_equivalence"
    /\ call.constraint1 = Constraint("x", "GreaterThan", "0")
    /\ call.constraint2 = Constraint("x", "GreaterThanOrEqual", "1")
    /\ ret.value

\* C9: checking the single constraint v > v is reported Unsatisfiable with
\* an unsat core of size at least 1.
C9_ContradictionHasCore ==
    (/\ call.fn = "verify_constraints"
     /\ \E v \in Variables : call.constraints = <<Constraint(v, "GreaterThan", v)>>) =>
        /\ ~ret.is_ok
        /\ ret.error = "Unsatisfiable"
        /\ ret.core_len >= 1

\* the Simple nodes of a tree, each by its path of child indices from the root
RECURSIVE SimplePaths(_)
SimplePaths(t) ==
    CASE t.tag = "Simple" -> {<<>>}
      [] t.tag = "Not"    -> {<<1>> \o q : q \in SimplePaths(t.child)}
      [] OTHER            ->
            UNION {{<<i>> \o q : q \in SimplePaths(t.children[i])} : i \in DOMAIN t.children}

\* C10: count_constraints(c) is the number of Simple nodes of c, and the
\* constraints_count returned by generate, generate_with_schema and
\* verify_compound_constraints is that number.
C10_CountIsSimpleNodes ==
    /\ call.fn = "count_constraints" => ret = Cardinality(SimplePaths(call.compound))
    /\ call.fn \in {"generate", "generate_with_schema"} =>
           ret.constraints_count = Cardinality(SimplePaths(call.compound))
    /\ (call.fn = "verify_compound_constraints" /\ ret.is_ok) =>
           ret.constraints_count = Cardinality(SimplePaths(call.compound))

C10_Witness ==
    /\ call.fn = "generate_with_schema"
    /\ call.compound.tag = "And"
    /\ Len(call.compound.children) = 2
    /\ call.compound.children[1].tag = "Not"
    /\ ret.constraints_count = 2

\* what Schema's == compares: the contents, whatever the hasher of the maps
SameContents(schema1, schema2) ==
    /\ schema1.fields = schema2.fields
    /\ schema1.documentation = schema2.documentation
    /\ schema1.traceability_id = schema2.traceability_id

\* C11: two emissions of the same tree for the same target with schemas of the
\* same contents give the same code, byte for byte: in particular the fields
\* come in the same order in the signature.
C11_EmissionDeterministic ==
    \A i \in DOMAIN emitted, j \in DOMAIN emitted :
        SameContents(emitted[i].schema, emitted[j].schema)
            => emitted[i].output.code = emitted[j].output.code

\* C12: for every target, tree and schema the code of generate_with_schema
\* starts with the license header, and the header holds the schema's
\* traceability_id as it is.
C12_TraceabilityInHeader ==
    call.fn = "generate_with_schema" =>
        LET header == license_header(call.language, call.schema.traceability_id)
        IN  /\ ret.is_ok
            /\ str_starts_with(ret.code, header)
            /\ str_contains(header, <<call.schema.traceability_id>>)

C12_Witness ==
    /\ call.fn = "generate_with_schema"
    /\ call.language = "Solidity"
    /\ call.schema.traceability_id = "CRU-TRACE-002"
    /\ call.compound.tag = "Or"
    /\ str_contains(SubSeq(ret.code, 1, 12), <<"CRU-TRACE-002">>)

\* C13: an emission whose tree names a variable that the schema does not key
\* succeeds, and its output carries a schema-incomplete flag that names the
\* variables missing from the schema.
C13_SchemaIncompleteFlag ==
    call.fn = "generate_with_schema" =>
        LET missing == NamesOf(LeavesOf(call.compound)) \ DOMAIN call.schema.fields
        IN  missing # {} =>
                /\ ret.is_ok
                /\ "schema_incomplete" \in DOMAIN ret
                /\ ret.schema_incomplete = missing

\* C14: a schema that an emission has borrowed is frozen (it is frozen before
\* the SMT phase, which comes before emission): from then on no add_field adds
\* or retypes a field or adds documentation.
C14_NoMutationAfterFreeze ==
    [][emitted # <<>> =>
          /\ registry'.fields = registry.fields
          /\ registry'.documentation = registry.documentation]_vars

\* the symbol of an operator in a target, as the claim tabulates it
OperatorSymbol(language, op) ==
    CASE op = "GreaterThanOrEqual" -> ">="
      [] op = "LessThanOrEqual" -> "<="
      [] op = "GreaterThan" -> ">"
      [] op = "LessThan" -> "<"
      [] op = "Equal" ->
            CASE language = "TypeScript" -> "==="
              [] language = "SparkAda" -> "="
              [] OTHER -> "=="
      [] op = "NotEqual" ->
            CASE language = "TypeScript" -> "!=="
              [] language = "SparkAda" -> "/="
              [] OTHER -> "!="

\* a leaf rendered for a target: variable, symbol, right value as written
LeafText(language, c) ==
    format_variable(language, c.left_variable)
        \o <<" ", OperatorSymbol(language, c.operator), " ", c.right_value>>

\* C15: for every target and every Simple leaf {l, op, r} of the tree, the
\* boolean expression and the assertions in the emitted code contain the leaf
\* as format_variable(l), the target's symbol for op and r copied verbatim
\* (params.l op r for Rust), with ===/!== for TypeScript, = and /= for
\* SPARK/Ada and ==/!= for the other five targets.
C15_LeafRendered ==
    call.fn \in {"generate", "generate_with_schema"} =>
        LET leaves == LeavesOf(call.compound)
            expression == build_expression(call.compound, call.language)
        IN  /\ ret.is_ok
            /\ leaves # <<>> => str_contains(ret.code, expression)
            /\ \A i \in DOMAIN leaves :
                   LET text == LeafText(call.language, leaves[i])
                   IN  /\ str_contains(expression, text)
                       /\ str_contains(ret.code, wrap_assertion(call.language, text))
                       /\ call.language = "Rust" =>
                              text = <<"params.", leaves[i].left_variable, " ",
                                       OperatorSymbol("Rust", leaves[i].operator), " ",
                                       leaves[i].right_value>>

C15_Witness ==
    /\ call.fn = "generate"
    /\ call.language = "TypeScript"
    /\ call.compound = Not(Simple(Constraint("y", "Equal", "x")))
    /\ str_contains(ret.code, <<"assert", "(", "params.", "y", " ", "===", " ", "x", ");">>)
    /\ str_contains(ret.code, <<"!(", "params.", "y", " ", "===", " ", "x", ")">>)

\* how many times a piece occurs in a String
Occurrences(s, piece) == Cardinality({i \in DOMAIN s : s[i] = piece})

\* the Simple leaves reached from the root through And nodes only
RECURSIVE RootLeaves(_)
RECURSIVE RootLeavesOfAll(_)
RootLeavesOfAll(ts) ==
    IF ts = <<>> THEN <<>> ELSE RootLeaves(ts[1]) \o RootLeavesOfAll(Tail(ts))
RootLeaves(t) ==
    CASE t.tag = "Simple" -> <<t.constraint>>
      [] t.tag = "And" -> RootLeavesOfAll(t.children)
      [] OTHER -> <<>>

\* C16: the SPARK/Ada emit_contracts returns a contract block with one
\* precondition clause labelled "Pre  =>" for each Simple leaf of the root
\* And, none for a leaf under an Or or a Not, and then one "Post =>" clause
\* relating the function result to the whole boolean expression.
C16_ContractBlock ==
    call.fn = "emit_contracts" =>
        LET leaves == RootLeaves(call.compound)
        IN  /\ ret.is_some
            /\ Occurrences(ret.value, "Pre  =>") = Len(leaves)
            /\ \A i \in DOMAIN leaves :
                   str_contains(ret.value,
                                <<"Pre  =>", " ">> \o LeafText("SparkAda", leaves[i]))
            /\ Occurrences(ret.value, "Post =>") = 1
            /\ ret.value[Len(ret.value)] = ")"
            /\ str_contains(ret.value, <<"Post =>", " (", "validate_intent", "'Result = ">>
                                           \o build_expression_body(call.compound))

\* C17: for the Zig target, whenever is_comptime_capable reports the tree
\* compile-time capable, the code returned by generate contains a comptime
\* block holding the checks, besides the std.debug.assert runtime assertions.
C17_ZigComptimeBlock ==
    (/\ call.fn = "generate"
     /\ call.language = "Zig"
     /\ is_comptime_capable("Zig", call.compound)) =>
        /\ ret.is_ok
        /\ str_contains(ret.code, <<"comptime">>)
        /\ LeavesOf(call.compound) # <<>> => str_contains(ret.code, <<"std.debug.assert">>)

\* a name read left to right: a character at the start of the name or right
\* after an underscore is upper-cased, every other character is kept
RECURSIVE AdaScan(_, _)
AdaScan(s, atStart) ==
    IF s = <<>> THEN <<>>
    ELSE (IF atStart /\ Head(s) # "_" THEN to_uppercase(Head(s)) ELSE <<Head(s)>>)
             \o AdaScan(Tail(s), Head(s) = "_")

\* C18: to_ada_case(name) upper-cases the first character of every
\* underscore-separated segment of name, leaves the other characters and the
\* underscores as they are, keeps the number of segments, and is idempotent.
C18_AdaCase ==
    call.fn = "to_ada_case" =>
        /\ ret = AdaScan(call.name, TRUE)
        /\ Len(split(ret, "_")) = Len(split(call.name, "_"))
        /\ Occurrences(ret, "_") = Occurrences(call.name, "_")
        /\ to_ada_case(ret) = ret

C18_Witness ==
    /\ call.fn = "to_ada_case"
    /\ call.name = <<"a", "_", "b">>
    /\ ret = <<"A", "_", "B">>

\* the requirement nodes of a tree, in source order
RequirementNodes(tree) == SelectSeq(tree.children, LAMBDA node : node.kind = "requirement")

\* a requirement node without a subject or without an action
LacksSubjectOrAction(node) ==
    \/ ~first_child(node, "subject").is_some
    \/ ~first_child(node, "action").is_some

\* C19: when a requirement node lacks a subject or an action, parsing fails
\* with MalformedRequirement carrying the byte range of the node; no
\* requirement node is skipped, so an accepted input has exactly one
\* Requirement for each of its requirement nodes, in source order.
C19_MalformedRequirement ==
    (call.fn = "parse" /\ ~call.tree.has_error) =>
        LET nodes == RequirementNodes(call.tree)
            malformed == SelectSeq(nodes, LacksSubjectOrAction)
        IN  /\ malformed # <<>> =>
                   /\ ~ret.is_ok
                   /\ ret.error = "MalformedRequirement"
                   /\ "byte_range" \in DOMAIN ret
                   /\ \E i \in DOMAIN malformed : ret.byte_range = malformed[i].byte_range
            /\ ret.is_ok =>
                   /\ Len(ret.value.requirements) = Len(nodes)
                   /\ \A i \in DOMAIN nodes :
                          Some(ret.value.requirements[i].subject) = extract_subject(nodes[i])

\* a tree with an And or an Or that has no children
RECURSIVE HasEmptyNode(_)
HasEmptyNode(t) ==
    CASE t.tag = "Simple" -> FALSE
      [] t.tag = "Not" -> HasEmptyNode(t.child)
      [] OTHER -> \/ t.children = <<>>
                  \/ \E i \in DOMAIN t.children : HasEmptyNode(t.children[i])

\* C20: checking a tree that contains an And or an Or without children
\* returns an error that rejects the tree as malformed, never a SAT and
\* never an UNSAT verdict.
C20_EmptyNodeRejected ==
    (call.fn = "verify_compound_constraints" /\ HasEmptyNode(call.compound)) =>
        /\ ~ret.is_ok
        /\ ret.error # "Unsatisfiable"

\* the pairs of terms compared in a formula
RECURSIVE ComparedTerms(_)
ComparedTerms(f) ==
    CASE f.op \in {"true", "false"} -> {}
      [] f.op = "not" -> ComparedTerms(f.a)
      [] f.op \in {"and", "or"} -> ComparedTerms(f.a) \cup ComparedTerms(f.b)
      [] OTHER -> {<<f.l, f.r>>}

\* the decimal literals among the right values explored that fit in 64 bits
I64Literals == {"0", "1"}

\* the terms a leaf stands for: the symbol of its left name, and the
\* numeral of its right value or the symbol of that name
LeafTerms(c) ==
    <<[kind |-> "const", name |-> c.left_variable],
      IF c.right_value \in I64Literals
      THEN [kind |-> "num", val |-> IF c.right_value = "0" THEN 0 ELSE 1]
      ELSE [kind |-> "const", name |-> c.right_value]>>

\* the leaves handed to the verifier by the call
CallLeaves ==
    IF call.fn = "verify_constraints" THEN call.constraints ELSE LeavesOf(call.compound)

\* C21: in the SMT translation a right_value is an integer literal exactly
\* when it parses as a signed 64-bit decimal integer and a variable reference
\* otherwise; within one call every occurrence of a name, left or right of
\* any leaf, is the same integer symbol and distinct names are distinct ones.
C21_RightValueTranslation ==
    call.fn \in {"verify_constraints", "verify_compound_constraints"} =>
        /\ UNION {ComparedTerms(checked[1][i]) : i \in DOMAIN checked[1]}
               = {LeafTerms(CallLeaves[i]) : i \in DOMAIN CallLeaves}
        /\ \A f \in {checked[1][i] : i \in DOMAIN checked[1]} :
               /\ Z3Consts(f) \subseteq NamesOf(CallLeaves)
               /\ \A pair \in ComparedTerms(f), other \in ComparedTerms(f) :
                      \A i \in 1..2, j \in 1..2 :
                          (pair[i].kind = "const" /\ other[j].kind = "const")
                              => (pair[i] = other[j] <=> pair[i].name = other[j].name)

C21_Witness ==
    /\ call.fn = "verify_compound_constraints"
    /\ call.compound = And(<<Simple(Constraint("x", "LessThan", "y")),
                             Simple(Constraint("y", "Equal", "1"))>>)
    /\ checked = <<<<Z3And(Z3Cmp("lt", Int_new_const("x"), Int_new_const("y")),
                           Z3Cmp("eq", Int_new_const("y"), Int_from_i64(1)))>>>>
    /\ ret.is_ok

\* the lines of a text: its pieces between the line ends, empty lines left out
RECURSIVE LinesOf(_)
LinesOf(text) ==
    LET ends == {i \in DOMAIN text : text[i] \in {"\n", "\n\n"}}
    IN  IF ends = {} THEN (IF text = <<>> THEN <<>> ELSE <<text>>)
        ELSE LET i == CHOOSE k \in ends : \A j \in ends : k <= j
             IN  (IF i = 1 THEN <<>> ELSE <<SubSeq(text, 1, i - 1)>>)
                     \o LinesOf(SubSeq(text, i + 1, Len(text)))

\* the names a list of constraints declares: every left variable and every
\* right value that is not a 64-bit decimal literal
DeclaredNames(constraints) ==
    {constraints[i].left_variable : i \in DOMAIN constraints}
        \cup ({constraints[i].right_value : i \in DOMAIN constraints} \ I64Literals)

DeclareLines(lines, name) ==
    {i \in DOMAIN lines : lines[i] = <<"(declare-const ", name, " Int)">>}

AssertLines(lines) == {i \in DOMAIN lines : lines[i][1] = "(assert ("}

\* C22: the text of generate_smt_lib has exactly one declare-const line for
\* each distinct name that is a left_variable or a right_value which is not a
\* signed 64-bit integer, no declare-const for a right_value which is one,
\* and exactly one assert line per constraint.
C22_DeclareOnceAssertEach ==
    call.fn = "generate_smt_lib" =>
        LET lines == LinesOf(ret)
        IN  /\ \A name \in DeclaredNames(call.constraints) :
                   Cardinality(DeclareLines(lines, name)) = 1
            /\ \A name \in RightValues \ DeclaredNames(call.constraints) :
                   DeclareLines(lines, name) = {}
            /\ Cardinality({i \in DOMAIN lines : lines[i][1] = "(declare-const "})
                   = Cardinality(DeclaredNames(call.constraints))
            /\ Cardinality(AssertLines(lines)) = Len(call.constraints)

C22_Witness ==
    /\ call.fn = "generate_smt_lib"
    /\ call.constraints = <<Constraint("x", "GreaterThanOrEqual", "y"),
                            Constraint("y", "GreaterThan", "0")>>
    /\ LinesOf(ret) = <<<<"(set-logic QF_LIA)">>, <<"(set-option :produce-models true)">>,
                        <<"(declare-const ", "x", " Int)">>, <<"(declare-const ", "y", " Int)">>,
                        <<"(assert (", ">=", " ", "x", " ", "y", "))">>,
                        <<"(assert (", ">", " ", "y", " ", "0", "))">>,
                        <<"(check-sat)">>, <<"(get-model)">>>>

\* C23: in the text of generate_smt_lib, set-logic QF_LIA comes first, the
\* declare-const of a variable comes before the first assert that mentions
\* it, the asserts are in the order of the constraints, and one check-sat
\* followed by one get-model comes after the last assert.
C23_CommandOrder ==
    call.fn = "generate_smt_lib" =>
        LET lines == LinesOf(ret)
            asserts == SelectSeq(lines, LAMBDA line : line[1] = "(assert (")
            n == Len(lines)
        IN  /\ lines[1] = <<"(set-logic QF_LIA)">>
            /\ Len(asserts) = Len(call.constraints)
            /\ \A i \in DOMAIN asserts :
                   /\ asserts[i][4] = call.constraints[i].left_variable
                   /\ asserts[i][6] = call.constraints[i].right_value
            /\ \A i \in AssertLines(lines) :
                   \A name \in {lines[i][4], lines[i][6]} \ I64Literals :
                       \E j \in DeclareLines(lines, name) : j < i
            /\ lines[n - 1] = <<"(check-sat)">>
            /\ lines[n] = <<"(get-model)">>
            /\ \A i \in 1..(n - 2) : lines[i] \notin {<<"(check-sat)">>, <<"(get-model)">>}
            /\ \A i \in AssertLines(lines) : i < n - 1

C23_Witness ==
    /\ call.fn = "generate_smt_lib"
    /\ call.constraints = <<Constraint("y", "LessThan", "1"), Constraint("x", "NotEqual", "y")>>
    /\ LinesOf(ret) = <<<<"(set-logic QF_LIA)">>, <<"(set-option :produce-models true)">>,
                        <<"(declare-const ", "y", " Int)">>,
                        <<"(assert (", "<", " ", "y", " ", "1", "))">>,
                        <<"(declare-const ", "x", " Int)">>,
                        <<"(assert (", "distinct", " ", "x", " ", "y", "))">>,
                        <<"(check-sat)">>, <<"(get-model)">>>>

\* the place of the first piece of a String that equals the given piece
FirstAt(s, piece) == CHOOSE i \in DOMAIN s : s[i] = piece /\ \A j \in 1..(i - 1) : s[j] # piece

\* the piece that names a field in the signature of a target
FieldPiece(language, name) ==
    IF language = "SparkAda" THEN to_ada_case(chars(name))[1] ELSE name

\* the names added to the schema, each at its first add_field
AddedBefore(a, b) ==
    \E i \in DOMAIN added :
        /\ added[i].name = a
        /\ \A j \in 1..i : added[j].name # b

\* C24: build_signature renders the fields of the schema in the order in
\* which add_field added them: when field a was added before field b, the
\* declaration of a comes before the declaration of b in the signature.
C24_SignatureInsertionOrder ==
    \A i \in DOMAIN emitted :
        emitted[i].schema = registry =>
            LET language == emitted[i].output.language
                signature == build_signature(language, "validate_intent", registry)
            IN  /\ str_contains(emitted[i].output.code, signature)
                /\ \A a \in DOMAIN registry.fields, b \in DOMAIN registry.fields :
                       AddedBefore(a, b) =>
                           FirstAt(signature, FieldPiece(language, a))
                               < FirstAt(signature, FieldPiece(language, b))

\* the expression a tree stands for in a target: a leaf as its text, And and
\* Or as the expressions of the children in child order, joined by the
\* connective inside one pair of parentheses, Not as the negation sign and
\* the child's expression in parentheses of its own
RECURSIVE NestedExpression(_, _)
NestedExpression(t, language) ==
    LET joined(connective) ==
            <<"(">> \o str_join([i \in DOMAIN t.children |->
                                    NestedExpression(t.children[i], language)],
                                <<" ", connective, " ">>) \o <<")">>
    IN  CASE t.tag = "Simple" -> LeafText(language, t.constraint)
          [] t.tag = "And" -> joined(logical_and(language))
          [] t.tag = "Or" -> joined(logical_or(language))
          [] t.tag = "Not" ->
                <<IF language \in {"SparkAda", "Elixir", "Python"} THEN "not (" ELSE "!(">>
                    \o NestedExpression(t.child, language) \o <<")">>

\* C25: for every target the boolean expression of a tree renders And as the
\* expressions of its children in child order joined by logical_and inside
\* one pair of parentheses, Or likewise with logical_or, and Not as
\* logical_not of the child's expression, wrapped in parentheses of its own;
\* the nesting of the tree is kept and never flattened.
C25_ExpressionNesting ==
    call.fn \in {"generate", "generate_with_schema"} =>
        /\ build_expression(call.compound, call.language)
               = NestedExpression(call.compound, call.language)
        /\ str_contains(ret.code, NestedExpression(call.compound, call.language))
        /\ call.compound.tag = "Not" =>
               NestedExpression(call.compound, call.language)
                   = logical_not(call.language, NestedExpression(call.compound.child, call.language))

C25_Witness ==
    /\ call.fn = "generate"
    /\ call.language = "Rust"
    /\ call.compound = Not(Simple(Constraint("x", "Equal", "1")))
    /\ str_contains(ret.code, <<"!(", "params.", "x", " ", "==", " ", "1", ")">>)

\* the assertions of the leaves of a tree, left to right, each leaf as its
\* own condition, one per line of the block
LeafAssertions(t, language) ==
    LET leaves == LeavesOf(t)
    IN  str_join([i \in DOMAIN leaves |-> wrap_assertion(language, LeafText(language, leaves[i]))],
                 <<"\n    ">>)

\* C26: the assertion block of an emission holds exactly one wrap_assertion
\* per Simple leaf of the tree, in left-to-right leaf order, as many as
\* constraints_count; a leaf under a Not is asserted as the leaf condition
\* itself and leaves under an Or are asserted like leaves under an And.
C26_AssertionPerLeaf ==
    call.fn \in {"generate", "generate_with_schema"} =>
        /\ build_assertions(call.compound, call.language)
               = LeafAssertions(call.compound, call.language)
        /\ str_contains(ret.code, LeafAssertions(call.compound, call.language))
        /\ Len(collect_assertions(call.compound, call.language)) = ret.constraints_count
        /\ Occurrences(ret.code, wrap_assertion(call.language, <<>>)[1])
               = ret.constraints_count

C26_Witness ==
    /\ call.fn = "generate"
    /\ call.language = "Rust"
    /\ call.compound = Or(<<Simple(Constraint("x", "LessThan", "y")),
                            Not(Simple(Constraint("y", "Equal", "1")))>>)
    /\ ret.constraints_count = 2
    /\ str_contains(ret.code, <<"debug_assert!", "(", "params.", "x", " ", "<", " ", "y", ");",
                                "\n    ",
                                "debug_assert!", "(", "params.", "y", " ", "==", " ", "1", ");">>)

\* the places from which a part is found in a String, at or after a place
PlacesOf(s, part, from) ==
    {i \in from..(Len(s) - Len(part) + 1) : SubSeq(s, i, i + Len(part) - 1) = part}

\* C27: in the code returned by generate_with_schema the parts come in the
\* order header, signature, contracts, body: the license header is before
\* the signature, the signature before the assertions, and the assertions
\* before the boolean expression that is returned.
C27_PartOrder ==
    call.fn = "generate_with_schema" =>
        LET header == license_header(call.language, call.schema.traceability_id)
            signature == build_signature(call.language, "validate_intent", call.schema)
            contracts == unwrap_or_default(emit_contracts(call.language, call.compound))
            assertions == build_assertions(call.compound, call.language)
            expression == build_expression(call.compound, call.language)
        IN  /\ PlacesOf(ret.code, header, 1) # {}
            /\ \E h \in PlacesOf(ret.code, header, 1) :
                \E s \in PlacesOf(ret.code, signature, h + Len(header)) :
                \E c \in PlacesOf(ret.code, contracts, s + Len(signature)) :
                \E a \in PlacesOf(ret.code, assertions, c + Len(contracts)) :
                \E e \in PlacesOf(ret.code, expression, a + Len(assertions)) :
                    /\ h = 1
                    /\ \A later \in PlacesOf(ret.code, expression, 1) : later <= e

C27_Witness ==
    /\ call.fn = "generate_with_schema"
    /\ call.language = "SparkAda"
    /\ call.schema.fields = ("x" :> "Uint64") @@ ("y" :> "Uint64")
    /\ call.compound = And(<<Simple(Constraint("x", "LessThan", "y")),
                             Simple(Constraint("y", "Equal", "1"))>>)
    /\ PlacesOf(ret.code, <<"pragma Assert", " (", "Params.", "X", " ", "<", " ", "y", ");">>, 1)
           # {}
    /\ unwrap_or_default(emit_contracts("SparkAda", call.compound)) # <<>>

\* the tree the call hands to the verifier: a list is the And of its leaves
CallTree ==
    IF call.fn = "verify_constraints"
    THEN And([i \in DOMAIN call.constraints |-> Simple(call.constraints[i])])
    ELSE call.compound

\* some integers for the names make the tree true
Satisfiable(t) == \E env \in RefEnvs(LeavesOf(t)) : EvalCompound(t, env)

IsAndOfLeaves(t) ==
    t.tag = "And" /\ \A i \in DOMAIN t.children : t.children[i].tag = "Simple"

\* what a result tells: satisfiable, or the error
Verdict(r) == IF r.is_ok THEN "Satisfiable" ELSE r.error

SameVerdictAndCount(r1, r2) ==
    /\ Verdict(r1) = Verdict(r2)
    /\ Verdict(r1) \in {"Satisfiable", "Unsatisfiable"}
    /\ r1.is_ok => r1.constraints_count = r2.constraints_count

\* C29: for every list cs of constraints, verify_constraints(cs) and
\* verify_compound_constraints(And of the Simple leaves of cs, in the same
\* order) give the same verdict and the same constraints_count; the empty
\* list and the empty And are both reported satisfiable with count 0.
C29_ListAgreesWithAnd ==
    /\ (call.fn = "verify_compound_constraints" /\ IsAndOfLeaves(call.compound)) =>
           /\ \A other \in verify_constraints(LeavesOf(call.compound)).returns :
                  SameVerdictAndCount(ret, other)
           /\ ret.is_ok => ret.constraints_count = Len(call.compound.children)
    /\ call.fn = "verify_constraints" =>
           \A other \in verify_compound_constraints(CallTree).returns :
               SameVerdictAndCount(ret, other)
    /\ (call.fn = "verify_compound_constraints" /\ call.compound = And(<<>>)) =>
           /\ ret.is_ok /\ ret.satisfiable /\ ret.constraints_count = 0
           /\ \A other \in verify_constraints(<<>>).returns :
                  other.is_ok /\ other.satisfiable /\ other.constraints_count = 0

C29_Witness ==
    /\ call.fn = "verify_compound_constraints"
    /\ call.compound = And(<<Simple(Constraint("x", "GreaterThanOrEqual", "0")),
                             Simple(Constraint("x", "LessThan", "y")),
                             Simple(Constraint("y", "Equal", "1"))>>)
    /\ ret.is_ok
    /\ ret.constraints_count = 3
    /\ \A other \in verify_constraints(LeavesOf(call.compound)).returns :
           other.constraints_count = 3

\* the add_field calls made so far for a name, and those that gave docs
AddsOf(name) == SelectSeq(added, LAMBDA add : add.name = name)
DocsOf(name) == SelectSeq(added, LAMBDA add : add.name = name /\ add.docs.is_some)

\* the type of the latest add_field for a name, Int32 when there is none
LatestType(name) ==
    IF AddsOf(name) = <<>> THEN "Int32" ELSE AddsOf(name)[Len(AddsOf(name))].data_type

SchemaKeepsAdds ==
    /\ DOMAIN registry.documentation \subseteq DOMAIN registry.fields
    /\ registry.traceability_id = "CRU-TRACE-001"
    /\ \A name \in Variables :
           /\ name \in DOMAIN registry.fields <=> AddsOf(name) # <<>>
           /\ get_type(registry, name) = LatestType(name)
           /\ name \in DOMAIN registry.documentation <=> DocsOf(name) # <<>>
           /\ DocsOf(name) # <<>> =>
                  registry.documentation[name] = DocsOf(name)[Len(DocsOf(name))].docs.value

\* C30: after any sequence of add_field calls on a schema built by
\* Schema::new, every name keyed in documentation is keyed in fields,
\* traceability_id is the value given to new, and get_type(name) returns the
\* type of the latest add_field for the name; adding a name again with
\* docs = None replaces its type and keeps the documentation given before.
C30_SchemaAfterAdds ==
    /\ []SchemaKeepsAdds
    /\ [][(call'.fn = "get_type" /\ call' # call) => ret' = LatestType(call'.name)]_vars

C30_Witness ==
    /\ call.fn = "get_type"
    /\ call.name = "x"
    /\ ret = "Int32"
    /\ added = <<[name |-> "x", data_type |-> "Uint64", docs |-> SomeDocs("balance")],
                 [name |-> "x", data_type |-> "Int32", docs |-> NoDocs]>>
    /\ registry.documentation = ("x" :> "balance")

====
